---------------------------- MODULE Spec2Model ----------------------------
(***************************************************************************)
(* A model of the resistor colour-band worker (src/src/index.ts): the      *)
(* reference catalog, the sequence-to-value decoder, the value-to-sequence *)
(* encoder, the closest-colour classifier, the band segmentation engine    *)
(* and the request handlers that read and write the learned-colour store.  *)
(*                                                                         *)
(* Conventions.                                                            *)
(*  - A JavaScript string that the code builds or takes apart is a         *)
(*    sequence of one-character strings; Str("abc") is written             *)
(*    <<"a","b","c">>.  Names that are only compared are TLA+ strings.     *)
(*  - A resistance is a decimal number m * 10^e, the record [m, e]; the    *)
(*    catalog's multiplier 10^k is k (0.1 is -1, 0.01 is -2), so that      *)
(*    10^9 needs no integer wider than TLC's.                              *)
(*  - An optional field of a TypeScript object is a field that the record  *)
(*    has or has not ("value" \in DOMAIN c is c.value !== undefined).      *)
(***************************************************************************)
EXTENDS Integers, Sequences, FiniteSets, TLC

VARIABLES
    phase,          \* which operation the next step applies, and "done" after it
    bandNames,      \* decoder: the argument of calculateResistorValue
    resistorValue,  \* decoder: its result
    filtered,       \* decoder: the names left when the dominant name is removed
    refiltered,     \* decoder: the names left when that is done once more
    ohms,           \* encoder: the resistance [m, e] given to resistanceToColors
    correctTolerance, \* encoder: the tolerance code given to it
    colorSequence,  \* encoder: its result
    roundTrip,      \* encoder: calculateResistorValue of that result
    targetPixel,    \* classifier: the colour given to findClosestColor
    learnedColors,  \* classifier: the learned colours given to it
    closestColor,   \* classifier: its result
    image,          \* extractor: the pixels, width and height given to extractBands
    changeThreshold,\* extractor: the colour change threshold given to it
    taughtColors,   \* extractor: the learned colours given to it
    extracted,      \* extractor: the bands it returns
    rawSegments,    \* extractor: the segments it builds before any filtering
    store,          \* service: the LEARNING_STORE binding and the list under "custom_colors"
    learner,        \* service: the learn request in progress
    learnsLeft,     \* service: the learn requests still to arrive
    detector,       \* service: the detection request in progress
    storeCalls,     \* service: the gets and puts that each handler's request has issued
    coreRuns,       \* service: the core functions that the detection request has run
    valuer,         \* service: the learn-from-value request in progress
    rival           \* service: a second learn request in progress

decoderVars == <<bandNames, resistorValue, filtered, refiltered>>
encoderVars == <<ohms, correctTolerance, colorSequence, roundTrip>>

classifierVars == <<targetPixel, learnedColors, closestColor>>

extractorVars == <<image, changeThreshold, taughtColors, extracted, rawSegments>>

serviceVars == <<store, learner, learnsLeft, detector, storeCalls, coreRuns, valuer, rival>>

pureVars == <<phase, decoderVars, encoderVars, classifierVars, extractorVars>>

vars == <<phase, decoderVars, encoderVars, classifierVars, extractorVars, serviceVars>>

---------------------------------------------------------------------------
(* Sequences and characters                                                *)

Digits == <<"0", "1", "2", "3", "4", "5", "6", "7", "8", "9">>

IsDigitChar(c) == \E i \in 1..10 : Digits[i] = c

DigitOf(c) == (CHOOSE i \in 1..10 : Digits[i] = c) - 1

Pow10(n) == IF n <= 0 THEN 1 ELSE
            IF n = 1 THEN 10 ELSE
            IF n = 2 THEN 100 ELSE
            IF n = 3 THEN 1000 ELSE
            IF n = 4 THEN 10000 ELSE
            IF n = 5 THEN 100000 ELSE
            IF n = 6 THEN 1000000 ELSE
            IF n = 7 THEN 10000000 ELSE
            IF n = 8 THEN 100000000 ELSE 1000000000

RECURSIVE NatToStr(_)
\* String(n) for an integer n >= 0.
NatToStr(n) == IF n < 10 THEN <<Digits[n + 1]>>
               ELSE NatToStr(n \div 10) \o <<Digits[(n % 10) + 1]>>

\* String(n) for an integer n.
IntToStr(n) == IF n < 0 THEN <<"-">> \o NatToStr(-n) ELSE NatToStr(n)

RECURSIVE Join(_)
\* Array.prototype.join('') of a sequence of strings.
Join(ss) == IF ss = <<>> THEN <<>> ELSE Head(ss) \o Join(Tail(ss))

RECURSIVE LeadingDigits(_)
\* The longest prefix of s made of decimal digits.
LeadingDigits(s) == IF s = <<>> \/ ~IsDigitChar(Head(s)) THEN <<>>
                    ELSE <<Head(s)>> \o LeadingDigits(Tail(s))

RECURSIVE DigitsValue(_, _)
DigitsValue(s, acc) == IF s = <<>> THEN acc
                       ELSE DigitsValue(Tail(s), acc * 10 + DigitOf(Head(s)))

NaN == "NaN"

\* parseInt(s): an optional sign, then the longest run of digits; NaN when
\* there is none.  What follows the run is ignored.
parseInt(s) ==
    LET neg  == s # <<>> /\ Head(s) = "-"
        rest == IF s # <<>> /\ Head(s) \in {"-", "+"} THEN Tail(s) ELSE s
        ds   == LeadingDigits(rest)
    IN  IF ds = <<>> THEN NaN
        ELSE IF neg THEN -DigitsValue(ds, 0) ELSE DigitsValue(ds, 0)

---------------------------------------------------------------------------
(* The reference catalog, in the order of the source                       *)

RESISTOR_COLORS == <<
    [name |-> "Black",  r |-> 0,   g |-> 0,   b |-> 0,   value |-> 0, multiplier |-> 0],
    [name |-> "Brown",  r |-> 165, g |-> 42,  b |-> 42,  value |-> 1, multiplier |-> 1, tolerance |-> <<"1">>],
    [name |-> "Red",    r |-> 255, g |-> 0,   b |-> 0,   value |-> 2, multiplier |-> 2, tolerance |-> <<"2">>],
    [name |-> "Orange", r |-> 255, g |-> 165, b |-> 0,   value |-> 3, multiplier |-> 3],
    [name |-> "Yellow", r |-> 255, g |-> 255, b |-> 0,   value |-> 4, multiplier |-> 4],
    [name |-> "Green",  r |-> 0,   g |-> 128, b |-> 0,   value |-> 5, multiplier |-> 5, tolerance |-> <<"0", ".", "5">>],
    [name |-> "Blue",   r |-> 0,   g |-> 0,   b |-> 255, value |-> 6, multiplier |-> 6, tolerance |-> <<"0", ".", "2", "5">>],
    [name |-> "Violet", r |-> 238, g |-> 130, b |-> 238, value |-> 7, multiplier |-> 7, tolerance |-> <<"0", ".", "1">>],
    [name |-> "Gray",   r |-> 128, g |-> 128, b |-> 128, value |-> 8, multiplier |-> 8, tolerance |-> <<"0", ".", "0", "5">>],
    [name |-> "White",  r |-> 255, g |-> 255, b |-> 255, value |-> 9, multiplier |-> 9],
    [name |-> "Gold",          r |-> 255, g |-> 215, b |-> 0,   multiplier |-> -1, tolerance |-> <<"5">>],
    [name |-> "Gold_Light",    r |-> 255, g |-> 220, b |-> 100, value |-> -1, tolerance |-> <<"5">>],
    [name |-> "Gold_Metallic", r |-> 212, g |-> 175, b |-> 55,  value |-> -1, tolerance |-> <<"5">>],
    [name |-> "Gold_Dark",     r |-> 184, g |-> 134, b |-> 11,  value |-> -1, tolerance |-> <<"5">>],
    [name |-> "Gold_Ochre",    r |-> 204, g |-> 119, b |-> 34,  value |-> -1, tolerance |-> <<"5">>],
    [name |-> "Silver", r |-> 192, g |-> 192, b |-> 192, multiplier |-> -2, tolerance |-> <<"1", "0">>],
    [name |-> "Beige (Body)",      r |-> 245, g |-> 245, b |-> 220],
    [name |-> "Tan (Body)",        r |-> 210, g |-> 180, b |-> 140],
    [name |-> "Sandy (Body)",      r |-> 244, g |-> 164, b |-> 96],
    [name |-> "Cream (Body)",      r |-> 255, g |-> 253, b |-> 208],
    [name |-> "Khaki (Body)",      r |-> 195, g |-> 176, b |-> 145],
    [name |-> "Light Blue (Body)", r |-> 173, g |-> 216, b |-> 230],
    [name |-> "Violet_Dark", r |-> 100, g |-> 50, b |-> 150, value |-> 7, multiplier |-> 7, tolerance |-> <<"0", ".", "1">>] >>

CatalogIdx == 1..Len(RESISTOR_COLORS)

CatalogNames == {RESISTOR_COLORS[i].name : i \in CatalogIdx}

\* RESISTOR_COLORS.find(c => c.name === n): the first entry of that name.
\* Only used where one exists.
FindByName(n) ==
    RESISTOR_COLORS[CHOOSE i \in CatalogIdx :
        /\ RESISTOR_COLORS[i].name = n
        /\ \A j \in 1..(i - 1) : RESISTOR_COLORS[j].name # n]

Resolves(n) == n \in CatalogNames

---------------------------------------------------------------------------
(* Colour-space converter, in fixed point                                  *)
(*                                                                         *)
(* L, a and b are integers in hundredths; a distance and a chroma are      *)
(* floors of the square roots, in hundredths too.  The intermediate        *)
(* values keep four to six decimal digits, which the widths of TLC's       *)
(* integers allow.                                                         *)

\* Math.pow((c / 255 + 0.055) / 1.055, 2.4), and c / 255 / 12.92 up to
\* c = 10, for every channel value c = 0..255, times 10^4.
GammaExpand == <<
        0,     3,     6,     9,    12,    15,    18,    21,    24,    27,    30,    33,    37,    40,    44,    48,
       52,    56,    60,    65,    70,    75,    80,    86,    91,    97,   103,   110,   116,   123,   130,   137,
      144,   152,   160,   168,   176,   185,   194,   203,   212,   222,   232,   242,   252,   262,   273,   284,
      296,   307,   319,   331,   343,   356,   369,   382,   395,   409,   423,   437,   452,   467,   482,   497,
      513,   529,   545,   561,   578,   595,   612,   630,   648,   666,   685,   704,   723,   742,   762,   782,
      802,   823,   844,   865,   887,   908,   931,   953,   976,   999,  1022,  1046,  1070,  1095,  1119,  1144,
     1170,  1195,  1221,  1248,  1274,  1301,  1329,  1356,  1384,  1413,  1441,  1470,  1500,  1529,  1559,  1590,
     1620,  1651,  1683,  1714,  1746,  1779,  1812,  1845,  1878,  1912,  1946,  1981,  2016,  2051,  2086,  2122,
     2159,  2195,  2232,  2270,  2307,  2346,  2384,  2423,  2462,  2502,  2542,  2582,  2623,  2664,  2705,  2747,
     2789,  2831,  2874,  2918,  2961,  3005,  3050,  3095,  3140,  3185,  3231,  3278,  3325,  3372,  3419,  3467,
     3515,  3564,  3613,  3663,  3712,  3763,  3813,  3864,  3916,  3968,  4020,  4072,  4125,  4179,  4233,  4287,
     4342,  4397,  4452,  4508,  4564,  4621,  4678,  4735,  4793,  4851,  4910,  4969,  5029,  5089,  5149,  5210,
     5271,  5333,  5395,  5457,  5520,  5583,  5647,  5711,  5776,  5841,  5906,  5972,  6038,  6105,  6172,  6240,
     6308,  6376,  6445,  6514,  6584,  6654,  6724,  6795,  6867,  6939,  7011,  7084,  7157,  7231,  7305,  7379,
     7454,  7529,  7605,  7682,  7758,  7835,  7913,  7991,  8070,  8148,  8228,  8308,  8388,  8469,  8550,  8632,
     8714,  8796,  8879,  8963,  9047,  9131,  9216,  9301,  9387,  9473,  9560,  9647,  9734,  9823,  9911, 10000 >>

\* The RGB-to-XYZ matrix with each row divided by its reference white
\* (95.047, 100, 108.883) / 100, times 10^5: the code multiplies by 100 and
\* divides by the white afterwards.
XyzMatrix == << <<43395, 37621, 18984>>,
                <<21267, 71515,  7218>>,
                << 1776, 10947, 87278>> >>

\* c^3 / 10^6 for c in 10^-4 units, without an intermediate above 2^31.
CubeMillionths(c) == (((c * c) \div 1000) * c) \div 1000

RECURSIVE CubeRootSearch(_, _, _)
\* The largest c in lo..hi with CubeMillionths(c) <= t.
CubeRootSearch(t, lo, hi) ==
    IF lo >= hi THEN lo
    ELSE LET mid == (lo + hi + 1) \div 2
         IN  IF CubeMillionths(mid) <= t THEN CubeRootSearch(t, mid, hi)
             ELSE CubeRootSearch(t, lo, mid - 1)

\* The Lab nonlinearity of t (in 10^-6), in 10^-4: the cube root above
\* 0.008856 and 7.787 t + 16/116 below.
LabF(t) == IF t > 8856 THEN CubeRootSearch(t, 2000, 10100)
           ELSE ((7787 * t) \div 100000) + 1379

\* A channel value far below zero, as a body's JSON may hold: -1e160.
HugeNegative == -2147483647

\* The Lab value of a colour with such a channel: the channel takes the
\* linear branches (it is neither above 0.04045 nor above 0.008856), and
\* l, a and b are finite, negative, and above 1e158 in magnitude, so
\* that the square of each, and of its difference to the l, a or b of a
\* colour of the catalog, is not a finite double.
BeyondSquaring == [l |-> -2147483647, a |-> -2147483647, b |-> -2147483647]

rgbToLab(r, g, b) ==
    IF HugeNegative \in {r, g, b} THEN BeyondSquaring ELSE
    LET rl == GammaExpand[r + 1]
        gl == GammaExpand[g + 1]
        bl == GammaExpand[b + 1]
        row(k) == (XyzMatrix[k][1] * rl + XyzMatrix[k][2] * gl + XyzMatrix[k][3] * bl) \div 1000
        fx == LabF(row(1))
        fy == LabF(row(2))
        fz == LabF(row(3))
    IN  [l |-> ((116 * fy) \div 100) - 1600, a |-> 5 * (fx - fy), b |-> 2 * (fy - fz)]

RECURSIVE SqrtSearch(_, _, _)
\* The largest c in lo..hi with c * c <= n.
SqrtSearch(n, lo, hi) ==
    IF lo >= hi THEN lo
    ELSE LET mid == (lo + hi + 1) \div 2
         IN  IF mid * mid <= n THEN SqrtSearch(n, mid, hi)
             ELSE SqrtSearch(n, lo, mid - 1)

\* Math.sqrt(n), rounded down; n < 2^31.
Sqrt(n) == SqrtSearch(n, 0, 46340)

Infinity == 2147483647

\* Math.sqrt(lab.a * lab.a + lab.b * lab.b); a square that overflows is
\* Infinity, and so are the sum and its root.
Chroma(lab) == IF lab = BeyondSquaring THEN Infinity
               ELSE Sqrt(lab.a * lab.a + lab.b * lab.b)

LabDistance(lab1, lab2) ==
    IF lab1 = BeyondSquaring /\ lab2 = BeyondSquaring THEN 0
    ELSE IF lab1 = BeyondSquaring \/ lab2 = BeyondSquaring THEN Infinity
    ELSE
    Sqrt((lab1.l - lab2.l) * (lab1.l - lab2.l)
         + (lab1.a - lab2.a) * (lab1.a - lab2.a)
         + (lab1.b - lab2.b) * (lab1.b - lab2.b))

colorDistance(c1, c2) == LabDistance(rgbToLab(c1.r, c1.g, c1.b), rgbToLab(c2.r, c2.g, c2.b))

\* 60 < Math.atan2(lab.b, lab.a) * 180 / PI < 100, by the tangents of 60
\* and 80 degrees (1.73205, 5.67128).
HueIsGoldLike(lab) ==
    /\ lab.b > 0
    /\ IF lab.a > 0 THEN lab.b * 10000 > 17321 * lab.a
       ELSE IF lab.a = 0 THEN TRUE
       ELSE lab.b * 10000 > 56713 * (-lab.a)

---------------------------------------------------------------------------
(* Closest-colour classifier                                               *)

\* The Lab value of every catalog entry, which the loop computes anew for
\* each entry.
CatalogLab == [i \in CatalogIdx |->
                 rgbToLab(RESISTOR_COLORS[i].r, RESISTOR_COLORS[i].g, RESISTOR_COLORS[i].b)]

\* The names a learned colour is given in this model: names of the catalog
\* (a digit colour, a body colour, two shade variants) and names of the
\* user's own, one of which starts with Gold.
CustomNames == {"Red", "Tan (Body)", "Gold_Dark", "Violet_Dark", "Goldenrod", "Mauve"}

\* The names of the catalog and of the learned colours that contain
\* "(Body)", and so "Body".
BodyNames == {"Beige (Body)", "Tan (Body)", "Sandy (Body)", "Cream (Body)",
              "Khaki (Body)", "Light Blue (Body)"}

\* name.includes(sub), for the substrings "(Body)" and "Body".
Includes(name, sub) == sub \in {"(Body)", "Body"} /\ name \in BodyNames

\* The names of the catalog and of the learned colours that start with Gold.
GoldNames == {"Gold", "Gold_Light", "Gold_Metallic", "Gold_Dark", "Gold_Ochre", "Goldenrod"}

\* name.startsWith('Gold')
StartsWithGold(name) == name \in GoldNames

RECURSIVE CustomLoop(_, _, _, _)
\* The loop over the learned colours, from the i-th on: the first of the
\* least biased distances wins.
CustomLoop(pixelLab, customColors, i, best) ==
    IF i > Len(customColors) THEN best
    ELSE LET color      == customColors[i]
             dist       == LabDistance(pixelLab, rgbToLab(color.r, color.g, color.b))
             biasedDist == IF dist = Infinity THEN Infinity ELSE (dist * 7) \div 10
         IN  IF biasedDist < best.minDist
             THEN CustomLoop(pixelLab, customColors, i + 1,
                             [minDist |-> biasedDist,
                              closest |-> [name |-> color.name, r |-> color.r, g |-> color.g,
                                           b |-> color.b, value |-> -1]])
             ELSE CustomLoop(pixelLab, customColors, i + 1, best)

\* The distance of the pixel to the i-th catalog entry after the biases;
\* every bias multiplies by a positive factor, which leaves Infinity as it is.
BiasedDistance(pixelLab, i) ==
    IF pixelLab = BeyondSquaring THEN Infinity ELSE
    LET color       == RESISTOR_COLORS[i]
        pixelChroma == Chroma(pixelLab)
        dist0       == LabDistance(pixelLab, CatalogLab[i])
        isNeutral   == color.name \in {"Black", "Gray", "White", "Silver"}
                       \/ Includes(color.name, "(Body)")
        dist1       == IF pixelChroma > 1000 /\ isNeutral
                       THEN (dist0 * (5000 + pixelChroma)) \div 5000 ELSE dist0
        isGoldLike  == pixelChroma > 3000 /\ HueIsGoldLike(pixelLab)
        dist2       == IF StartsWithGold(color.name)
                       THEN (IF isGoldLike THEN (dist1 * 55) \div 100 ELSE (dist1 * 75) \div 100)
                       ELSE IF color.name = "Silver" THEN (dist1 * 8) \div 10
                       ELSE dist1
    IN  IF Includes(color.name, "(Body)")
        THEN (IF pixelChroma > 3500 THEN (dist2 * 15) \div 10
              ELSE IF pixelChroma < 1500 THEN (dist2 * 85) \div 100
              ELSE (dist2 * 95) \div 100)
        ELSE dist2

\* The comparison made strict: an entry replaces only a worse one.
CatalogWinsStrictly(dist, minDist) == dist < minDist

\* dist <= minDist: an entry as close as the best so far replaces it.
CatalogWins(dist, minDist) == dist <= minDist

RECURSIVE CatalogLoop(_, _, _)
CatalogLoop(pixelLab, i, best) ==
    IF i > Len(RESISTOR_COLORS) THEN best
    ELSE LET dist == BiasedDistance(pixelLab, i)
         IN  IF CatalogWins(dist, best.minDist)
             THEN CatalogLoop(pixelLab, i + 1, [minDist |-> dist, closest |-> RESISTOR_COLORS[i]])
             ELSE CatalogLoop(pixelLab, i + 1, best)

\* The unification of the Gold shades alone.
CanonicalGoldOnly(closest) ==
    IF StartsWithGold(closest.name) THEN FindByName("Gold") ELSE closest

\* The two unifications at the end: every name that starts with Gold
\* becomes the entry Gold, Violet_Dark becomes Violet.
Canonical(closest) ==
    IF StartsWithGold(closest.name) THEN FindByName("Gold")
    ELSE IF closest.name = "Violet_Dark" THEN FindByName("Violet")
    ELSE closest

findClosestColor(pixel, customColors) ==
    LET pixelLab == rgbToLab(pixel.r, pixel.g, pixel.b)
        start    == [minDist |-> Infinity, closest |-> RESISTOR_COLORS[1]]
        learned  == CustomLoop(pixelLab, customColors, 1, start)
        best     == CatalogLoop(pixelLab, 1, learned)
    IN  Canonical(best.closest)

---------------------------------------------------------------------------
(* Sequence-to-value decoder                                               *)

Omega == "Ohm"       \* the character U+03A9
PlusMinus == "+-"    \* the character U+00B1

\* Whether m * 10^e >= 10^n, for 0 <= n <= 9.
DecAtLeast(m, e, n) ==
    IF m <= 0 THEN FALSE
    ELSE IF e >= n THEN TRUE
    ELSE IF n - e > 9 THEN FALSE
    ELSE m >= Pow10(n - e)

\* round(m * 10^e / 10^(n-1)): the number of tenths of (m * 10^e) / 10^n,
\* ties rounded up as Number.prototype.toFixed does on a decimal tie.
Tenths(m, e, n) ==
    IF e >= n - 1 THEN m * Pow10(e - (n - 1))
    ELSE LET d == Pow10((n - 1) - e) IN (2 * m + d) \div (2 * d)

\* x.toFixed(1).replace(/\.0$/, '') for x = t / 10, t >= 0.
FixedOneTrimmed(t) ==
    IF t % 10 = 0 THEN NatToStr(t \div 10)
    ELSE NatToStr(t \div 10) \o <<".", Digits[(t % 10) + 1]>>

RECURSIVE StripZeros(_)
\* A digit string without its trailing zeros.
StripZeros(s) == IF s # <<>> /\ s[Len(s)] = "0" THEN StripZeros(SubSeq(s, 1, Len(s) - 1))
                 ELSE s

RECURSIVE PadLeft(_, _)
PadLeft(s, n) == IF Len(s) >= n THEN s ELSE PadLeft(<<"0">> \o s, n)

\* String(m * 10^e) for -2 <= e and |m * 10^e| < 10^21: the shortest
\* decimal, as Number-to-string conversion prints a decimal number.
DecToStr(m, e) ==
    IF m = 0 THEN <<"0">>
    ELSE IF e >= 0 THEN IntToStr(m) \o [i \in 1..e |-> "0"]
    ELSE LET a    == IF m < 0 THEN -m ELSE m
             p    == Pow10(-e)
             frac == StripZeros(PadLeft(NatToStr(a % p), -e))
             body == NatToStr(a \div p) \o (IF frac = <<>> THEN <<>> ELSE <<".">> \o frac)
         IN  IF m < 0 THEN <<"-">> \o body ELSE body

formatResistance(m, e) ==
    IF DecAtLeast(m, e, 6) THEN FixedOneTrimmed(Tenths(m, e, 6)) \o <<"M", Omega>>
    ELSE IF DecAtLeast(m, e, 3) THEN FixedOneTrimmed(Tenths(m, e, 3)) \o <<"k", Omega>>
    ELSE DecToStr(m, e) \o <<Omega>>

\* The decoder's results are strings or null.  The two messages are not
\* taken apart, so each is written as one token; null and the value of a
\* result not computed yet are tokens that no string is.
Null == <<"null">>
Pending == <<"pending">>
NotEnoughValidBands == <<"Not enough valid bands">>
InvalidBandSequence == <<"Invalid band sequence">>

DefaultTolerance == <<"2", "0">>

\* The check with its bound off by one: two resolved bands are let through.
TooFewResolvedOffByOne(colorObjsFull) == Len(colorObjsFull) < 2

\* colorObjsFull.length < 3
TooFewResolved(colorObjsFull) == Len(colorObjsFull) < 3

calculateResistorValue(bands) ==
    IF Len(bands) < 3 THEN Null
    ELSE
    LET resolved      == SelectSeq(bands, Resolves)
        colorObjsFull == [i \in 1..Len(resolved) |-> FindByName(resolved[i])]
        n             == Len(colorObjsFull)
    IN  IF TooFewResolved(colorObjsFull) THEN NotEnoughValidBands
        ELSE
        LET lastBand      == colorObjsFull[n]
            hasTolerance  == "tolerance" \in DOMAIN lastBand
            multiplierObj == IF hasTolerance THEN colorObjsFull[n - 1] ELSE colorObjsFull[n]
            digits        == IF hasTolerance THEN SubSeq(colorObjsFull, 1, n - 2)
                             ELSE SubSeq(colorObjsFull, 1, n - 1)
        IN  IF \/ Len(digits) = 0
               \/ \E i \in 1..Len(digits) : "value" \notin DOMAIN digits[i]
               \/ "multiplier" \notin DOMAIN multiplierObj
            THEN InvalidBandSequence
            ELSE
            LET digitValue == parseInt(Join([i \in 1..Len(digits) |-> IntToStr(digits[i].value)]))
                tolerance  == IF hasTolerance THEN lastBand.tolerance ELSE DefaultTolerance
            IN  formatResistance(digitValue, multiplierObj.multiplier)
                    \o <<" ", PlusMinus>> \o tolerance \o <<"%">>

---------------------------------------------------------------------------
(* Value-to-sequence encoder                                               *)

colorMap == <<"Black", "Brown", "Red", "Orange", "Yellow", "Green", "Blue",
              "Violet", "Gray", "White">>

\* colorMap.find(c => c.value === v), Undefined when there is none.
Undefined == "undefined"
ColorOfValue(v) == IF v \in 0..9 THEN colorMap[v + 1] ELSE Undefined

toleranceMap == [code \in {"1", "2", "0.5", "0.25", "0.1", "5", "10", "20"} |->
                    CASE code = "1"    -> "Brown"
                      [] code = "2"    -> "Red"
                      [] code = "0.5"  -> "Green"
                      [] code = "0.25" -> "Blue"
                      [] code = "0.1"  -> "Violet"
                      [] code = "5"    -> "Gold"
                      [] code = "10"   -> "Silver"
                      [] code = "20"   -> "None"]

\* toleranceMap is an object literal: a key it does not hold itself is
\* looked up in Object.prototype, whose members are functions and objects.
ObjectPrototypeKeys == {"constructor", "toString", "valueOf", "hasOwnProperty"}
InheritedMember == "[inherited member]"

\* toleranceMap[key]
NoTolerance == "null"      \* the argument null

ToleranceLookup(key) ==
    IF key \in DOMAIN toleranceMap THEN toleranceMap[key]
    ELSE IF key \in ObjectPrototypeKeys THEN InheritedMember
    ELSE Undefined

RECURSIVE NumDigits(_)
\* The number of decimal digits of m >= 1.
NumDigits(m) == IF m < 10 THEN 1 ELSE 1 + NumDigits(m \div 10)

RECURSIVE StripTens(_)
\* m >= 1 without its trailing decimal zeros.
StripTens(m) == IF m % 10 = 0 THEN StripTens(m \div 10) ELSE m

\* Math.floor(Math.log10(m * 10^e)) for m >= 1.
FloorLog10(m, e) == NumDigits(m) - 1 + e

\* ohms < 0.1 for ohms = m * 10^e.
BelowTenth(m, e) == m <= 0 \/ FloorLog10(m, e) < -1

\* Math.round(m * 10^e / 10^(exponent - 1)) with exponent = FloorLog10(m, e):
\* m scaled to two digits, a half rounded up.
RoundToTwoDigits(m) ==
    LET nd == NumDigits(m)
    IN  IF nd = 1 THEN m * 10
        ELSE IF nd = 2 THEN m
        ELSE LET d == Pow10(nd - 2) IN (2 * m + d) \div (2 * d)

\* Math.log10(m * 10^e / f) for m, f >= 1, as the two facts the code reads
\* of it: whether it is an integer (the quotient is a power of ten) and its
\* nearest integer, the k with 10^(2k-1) <= (m * 10^e / f)^2 < 10^(2k+1).
Log10Quotient(m, e, f) ==
    LET w == (m * m * 1000) \div (f * f)      \* floor(100 * 10 * (m/f)^2)
        j == IF w < 100 THEN -1               \* w in [100^(j+1), 100^(j+2))
             ELSE IF w < 10000 THEN 0
             ELSE IF w < 1000000 THEN 1
             ELSE IF w < 100000000 THEN 2 ELSE 3
    IN  [isInteger |-> StripTens(m) = StripTens(f), nearest |-> j + e]

resistanceToColors(o, tol) ==
    IF BelowTenth(o.m, o.e) THEN <<>>
    ELSE
    LET rounded         == RoundToTwoDigits(o.m)
        firstTwoDigits  == IF rounded = 100 THEN 10 ELSE rounded
        firstDigit      == firstTwoDigits \div 10
        secondDigit     == firstTwoDigits % 10
        lg              == Log10Quotient(o.m, o.e, firstTwoDigits)
        \* multiplierValue = Math.log10(ohms / firstTwoDigits) + 1
        multiplierIsInt == lg.isInteger
        multiplierRound == lg.nearest + 1
        firstBand       == ColorOfValue(firstDigit)
        secondBand      == ColorOfValue(secondDigit)
        multiplierBandName ==
            IF multiplierIsInt /\ multiplierRound = -1 THEN "Gold"
            ELSE IF multiplierIsInt /\ multiplierRound = -2 THEN "Silver"
            ELSE IF ColorOfValue(multiplierRound) # Undefined
                 THEN ColorOfValue(multiplierRound) ELSE ""
    IN  IF firstBand # Undefined /\ secondBand # Undefined /\ multiplierBandName # ""
        THEN LET sequence == <<firstBand, secondBand, multiplierBandName>>
                 tc       == ToleranceLookup(tol)
             IN  IF tol \notin {NoTolerance, ""} /\ tc # Undefined /\ tc # "None"
                 THEN Append(sequence, tc)
                 ELSE sequence
        ELSE <<>>

---------------------------------------------------------------------------
(* Resistance parser                                                       *)

WhiteSpace == {" ", "\t", "\n"}

RECURSIVE TrimStart(_)
TrimStart(s) == IF s # <<>> /\ Head(s) \in WhiteSpace THEN TrimStart(Tail(s)) ELSE s

RECURSIVE TrimEnd(_)
TrimEnd(s) == IF s # <<>> /\ s[Len(s)] \in WhiteSpace THEN TrimEnd(SubSeq(s, 1, Len(s) - 1))
              ELSE s

\* String.prototype.trim
Trim(s) == TrimEnd(TrimStart(s))

LowerCase == <<"a", "b", "c", "d", "e", "f", "g", "h", "i", "j", "k", "l", "m",
               "n", "o", "p", "q", "r", "s", "t", "u", "v", "w", "x", "y", "z">>
UpperCase == <<"A", "B", "C", "D", "E", "F", "G", "H", "I", "J", "K", "L", "M",
               "N", "O", "P", "Q", "R", "S", "T", "U", "V", "W", "X", "Y", "Z">>

UpperOf(c) == IF \E i \in 1..26 : LowerCase[i] = c
              THEN UpperCase[CHOOSE i \in 1..26 : LowerCase[i] = c] ELSE c

\* String.prototype.toUpperCase
ToUpperCase(s) == [i \in 1..Len(s) |-> UpperOf(s[i])]

\* str.endsWith(c) for a character c
EndsWith(s, c) == s # <<>> /\ s[Len(s)] = c

\* str.slice(0, -1)
SliceOffLast(s) == IF s = <<>> THEN <<>> ELSE SubSeq(s, 1, Len(s) - 1)

NotANumber == [nan |-> TRUE]
IsNaN(v) == "nan" \in DOMAIN v

\* The exponent part at the head of s: "E" or "e", an optional sign and at
\* least one digit; 0 when s does not start with one.
ExponentPart(s) ==
    IF s = <<>> \/ Head(s) \notin {"E", "e"} THEN 0
    ELSE LET afterE == Tail(s)
             neg    == afterE # <<>> /\ Head(afterE) = "-"
             rest   == IF afterE # <<>> /\ Head(afterE) \in {"-", "+"} THEN Tail(afterE)
                       ELSE afterE
             ds     == LeadingDigits(rest)
         IN  IF ds = <<>> THEN 0
             ELSE IF neg THEN -DigitsValue(ds, 0) ELSE DigitsValue(ds, 0)

\* parseFloat(s): leading white space, an optional sign, digits with an
\* optional fraction and an optional exponent; NaN when no digit starts the
\* number.  What follows the number is ignored.  The result is m * 10^e.
parseFloat(s) ==
    LET t        == TrimStart(s)
        neg      == t # <<>> /\ Head(t) = "-"
        unsigned == IF t # <<>> /\ Head(t) \in {"-", "+"} THEN Tail(t) ELSE t
        intPart  == LeadingDigits(unsigned)
        afterInt == SubSeq(unsigned, Len(intPart) + 1, Len(unsigned))
        hasPoint == afterInt # <<>> /\ Head(afterInt) = "."
        fraction == IF hasPoint THEN LeadingDigits(Tail(afterInt)) ELSE <<>>
        afterNum == IF hasPoint THEN SubSeq(afterInt, Len(fraction) + 2, Len(afterInt))
                    ELSE afterInt
        mantissa == DigitsValue(intPart \o fraction, 0)
    IN  IF intPart = <<>> /\ fraction = <<>> THEN NotANumber
        ELSE [m |-> IF neg THEN -mantissa ELSE mantissa,
              e |-> ExponentPart(afterNum) - Len(fraction)]

NullNumber == [null |-> TRUE]
IsNull(v) == "null" \in DOMAIN v

\* The keys of colorCounts, in the order of Object.entries: the names in
\* the order of their first occurrence.
RECURSIVE CountedNames(_, _)
CountedNames(bands, seen) ==
    IF bands = <<>> THEN seen
    ELSE IF \E i \in 1..Len(seen) : seen[i] = Head(bands) THEN CountedNames(Tail(bands), seen)
    ELSE CountedNames(Tail(bands), Append(seen, Head(bands)))

\* colorCounts[name]
ColorCount(bands, name) == Cardinality({i \in 1..Len(bands) : bands[i] = name})

NoDominantColor == [null |-> TRUE]

\* findDominantColor(bands) of a list of names: null for none; else the
\* first entry of the entries sorted by descending count, which the stable
\* sort makes the earliest of the most frequent names, when its count is
\* above 1, and null otherwise.
findDominantColor(bands) ==
    IF Len(bands) = 0 THEN NoDominantColor
    ELSE LET names == CountedNames(bands, <<>>)
             first == CHOOSE i \in 1..Len(names) :
                         /\ \A j \in 1..Len(names) :
                               ColorCount(bands, names[j]) <= ColorCount(bands, names[i])
                         /\ \A j \in 1..(i - 1) :
                               ColorCount(bands, names[j]) < ColorCount(bands, names[i])
         IN  IF ColorCount(bands, names[first]) > 1 THEN [name |-> names[first]]
             ELSE NoDominantColor

\* The body removal of the caller, which the sources do not hold: every
\* occurrence of the dominant name is removed, and the names are passed
\* through when there is none.
ExcludeDominant(bands) ==
    LET dominant == findDominantColor(bands)
    IN  IF IsNull(dominant) THEN bands
        ELSE SelectSeq(bands, LAMBDA n : n # dominant.name)

\* parseResistance(valueStr) of a string: the number before a final K or M,
\* times 1000 or 1000000; null for the empty string and for no number.
parseResistance(valueStr) ==
    IF valueStr = <<>> THEN NullNumber
    ELSE
    LET str         == ToUpperCase(Trim(valueStr))
        exponent    == IF EndsWith(str, "K") THEN 3 ELSE IF EndsWith(str, "M") THEN 6 ELSE 0
        numericPart == IF EndsWith(str, "K") \/ EndsWith(str, "M") THEN SliceOffLast(str)
                       ELSE str
        value       == parseFloat(numericPart)
    IN  IF IsNaN(value) THEN NullNumber ELSE [m |-> value.m, e |-> value.e + exponent]

---------------------------------------------------------------------------
(* Band extraction: averaged line, segments, one band per kept segment     *)

\* Math.round(sum / count), for sum >= 0 and count > 0.
RoundDiv(sum, count) == (2 * sum + count) \div (2 * count)

RECURSIVE SumChannel(_, _, _)
\* The sum of the channel ch over the colours from the i-th on.
SumChannel(colors, ch, i) ==
    IF i > Len(colors) THEN 0 ELSE colors[i][ch] + SumChannel(colors, ch, i + 1)

averageColor(colors) ==
    IF Len(colors) = 0 THEN [r |-> 0, g |-> 0, b |-> 0]
    ELSE [r |-> RoundDiv(SumChannel(colors, "r", 1), Len(colors)),
          g |-> RoundDiv(SumChannel(colors, "g", 1), Len(colors)),
          b |-> RoundDiv(SumChannel(colors, "b", 1), Len(colors))]

RECURSIVE ColumnPixels(_, _, _, _, _)
\* The pixels of column x in the rows y..endY-1 that the array holds;
\* pixels[idx] of the code is pixels[idx + 1] here.
ColumnPixels(pixels, width, x, y, endY) ==
    IF y >= endY THEN <<>>
    ELSE LET idx == y * width + x
         IN  (IF idx + 1 <= Len(pixels) THEN <<pixels[idx + 1]>> ELSE <<>>)
             \o ColumnPixels(pixels, width, x, y + 1, endY)

\* The line of column averages over the middle half of the rows; the
\* element for column x is at index x + 1.
AveragedLine(pixels, width, height) ==
    LET startY == height \div 4
        endY   == (3 * height) \div 4
    IN  [i \in 1..width |->
            LET avg == averageColor(ColumnPixels(pixels, width, i - 1, startY, endY))
            IN  [r |-> avg.r, g |-> avg.g, b |-> avg.b, x |-> i - 1]]

\* colorDistance(prevColor, currentColor) >= colorChangeThreshold
ColourChangesOrEquals(prevColor, currentColor, colorChangeThreshold) ==
    colorDistance(prevColor, currentColor) >= colorChangeThreshold * 100

\* colorDistance(prevColor, currentColor) > colorChangeThreshold
ColourChanges(prevColor, currentColor, colorChangeThreshold) ==
    colorDistance(prevColor, currentColor) > colorChangeThreshold * 100

RECURSIVE SegmentLoop(_, _, _, _, _)
\* The loop that cuts the line where two neighbours are further apart than
\* the threshold (distances are in hundredths).
SegmentLoop(averagedLine, colorChangeThreshold, i, segments, currentSegment) ==
    IF i > Len(averagedLine) THEN Append(segments, currentSegment)
    ELSE LET prevColor    == averagedLine[i - 1]
             currentColor == averagedLine[i]
         IN  IF ColourChanges(prevColor, currentColor, colorChangeThreshold)
             THEN SegmentLoop(averagedLine, colorChangeThreshold, i + 1,
                              Append(segments, currentSegment),
                              [start_x |-> currentColor.x, end_x |-> currentColor.x,
                               pixels |-> <<currentColor>>])
             ELSE SegmentLoop(averagedLine, colorChangeThreshold, i + 1, segments,
                              [start_x |-> currentSegment.start_x, end_x |-> currentColor.x,
                               pixels |-> Append(currentSegment.pixels, currentColor)])

RECURSIVE InsertNumber(_, _)
InsertNumber(sorted, w) ==
    IF sorted = <<>> THEN <<w>>
    ELSE IF w - Head(sorted) < 0 THEN <<w>> \o sorted
    ELSE <<Head(sorted)>> \o InsertNumber(Tail(sorted), w)

RECURSIVE SortNumbers(_)
\* sort((a, b) => a - b) of a list of numbers
SortNumbers(list) ==
    IF list = <<>> THEN <<>>
    ELSE InsertNumber(SortNumbers(SubSeq(list, 1, Len(list) - 1)), list[Len(list)])

minBandWidth == 3
DefaultMedianWidth == 10

SegWidth(seg) == seg.end_x - seg.start_x + 1

\* The median of the widths of the segments that are wide enough.
MedianWidth(segments) ==
    LET allWidths == SelectSeq([i \in 1..Len(segments) |-> SegWidth(segments[i])],
                               LAMBDA w : w >= minBandWidth)
    IN  IF Len(allWidths) > 0 THEN SortNumbers(allWidths)[Len(allWidths) \div 2 + 1]
        ELSE DefaultMedianWidth

Abs(n) == IF n < 0 THEN -n ELSE n

\* index === 0 || index >= segments.length - 3: the last three segments.
IsAtEdgeOfThree(index, segmentCount) == index = 0 \/ index >= segmentCount - 3

\* index === 0 || index >= segments.length - 2, for the 0-based index.
IsAtEdge(index, segmentCount) == index = 0 \/ index >= segmentCount - 2

\* Math.round((seg.start_x + seg.end_x) / 2)
BandCentre(seg) == (seg.start_x + seg.end_x + 1) \div 2

\* The rescue, never applied.
NeverRescues(name, isAtEdge, chroma, labB, segWidth, medianWidth) == FALSE

\* resistorColor.name.includes('(Body)') && isAtEdge, and then
\* bodyChroma > 30 && lab.b > 25 && segWidth < medianWidth * 1.2
RescuesBody(name, isAtEdge, chroma, labB, segWidth, medianWidth) ==
    /\ Includes(name, "(Body)") /\ isAtEdge
    /\ chroma > 3000 /\ labB > 2500 /\ 5 * segWidth < 6 * medianWidth

\* resistorColor after the overrides: Silver or Gold for a candidate at an
\* edge, Gold for a saturated warm body colour at an edge, and the colour
\* that findClosestColor gave (closest) otherwise.
FinalColor(seg, index, segmentCount, medianWidth, lab, closest) ==
    LET l        == lab.l
        segWidth == SegWidth(seg)
        isAtEdge == IsAtEdge(index, segmentCount)
        isLowChroma == Abs(lab.a) < 300 /\ Abs(lab.b) < 300
        isCandidateSilver ==
            /\ isLowChroma
            /\ l > 6000 /\ l < 9500
            /\ 2 * segWidth < 3 * medianWidth
            /\ isAtEdge
        chroma == Chroma(lab)
        isWarm == lab.a > -500 /\ lab.b > 2000
        isHighSaturation == chroma > 3000
        isCandidateGold ==
            /\ isWarm
            /\ isHighSaturation
            /\ l > 2500 /\ l < 9000
            /\ 5 * segWidth < 6 * medianWidth
            /\ isAtEdge
        byRole == IF isCandidateSilver THEN FindByName("Silver")
                  ELSE IF isCandidateGold THEN FindByName("Gold")
                  ELSE closest
    IN  IF RescuesBody(byRole.name, isAtEdge, chroma, lab.b, segWidth, medianWidth)
        THEN FindByName("Gold")
        ELSE byRole

\* isMetallic, never true.
NeverMetallic(name) == FALSE

\* resistorColor.name.startsWith('Gold') || resistorColor.name === 'Silver'
IsMetallic(name) == StartsWithGold(name) \/ name = "Silver"

\* The width rejection, never applied.
RejectsNothing(name, isAtEdge, segWidth, medianWidth) == FALSE

\* The width rejection without its conditions on the position and the width.
RejectsAnyBody(name, isAtEdge, segWidth, medianWidth) == Includes(name, "Body")

\* !isAtEdge && segWidth > medianWidth * 2.5, and then
\* resistorColor.name.includes('Body')
RejectsWideBody(name, isAtEdge, segWidth, medianWidth) ==
    /\ ~isAtEdge /\ 2 * segWidth > 5 * medianWidth
    /\ Includes(name, "Body")

\* The three rejections and the push, for the final colour of the segment.
BandOfFinal(seg, index, segmentCount, medianWidth, avgColor, lab, resistorColor) ==
    IF SegWidth(seg) < minBandWidth THEN <<>>
    ELSE IF ~IsMetallic(resistorColor.name) /\ (lab.l < 500 \/ lab.l > 9900) THEN <<>>
    ELSE IF RejectsWideBody(resistorColor.name, IsAtEdge(index, segmentCount),
                            SegWidth(seg), medianWidth) THEN <<>>
    ELSE <<[x |-> BandCentre(seg), colorName |-> resistorColor.name, rgb |-> avgColor,
            l |-> lab.l, width |-> SegWidth(seg), chroma |-> Chroma(lab)]>>

\* The body of the forEach after its first three constants: the band of a
\* segment of average colour avgColor, which is lab in Lab space and which
\* findClosestColor classifies as closest, or none.
BandOfClassified(seg, index, segmentCount, medianWidth, avgColor, lab, closest) ==
    BandOfFinal(seg, index, segmentCount, medianWidth, avgColor, lab,
                FinalColor(seg, index, segmentCount, medianWidth, lab, closest))

\* The colour in Lab space and its classification, for the average colour
\* of a segment.
BandOfAverage(seg, index, segmentCount, medianWidth, avgColor, customColors) ==
    BandOfClassified(seg, index, segmentCount, medianWidth, avgColor,
                     rgbToLab(avgColor.r, avgColor.g, avgColor.b),
                     findClosestColor(avgColor, customColors))

\* The body of the forEach: the band of one segment, or none.
BandOfSegment(seg, index, segmentCount, medianWidth, customColors) ==
    BandOfAverage(seg, index, segmentCount, medianWidth, averageColor(seg.pixels), customColors)

RECURSIVE ForEachSegment(_, _, _, _)
ForEachSegment(segments, i, medianWidth, customColors) ==
    IF i > Len(segments) THEN <<>>
    ELSE BandOfSegment(segments[i], i - 1, Len(segments), medianWidth, customColors)
         \o ForEachSegment(segments, i + 1, medianWidth, customColors)

\* The comparator with its operands exchanged: descending x.
CompareXDescending(a, b) == b.x - a.x

\* (a, b) => a.x - b.x
CompareX(a, b) == a.x - b.x

RECURSIVE InsertBand(_, _)
InsertBand(sorted, band) ==
    IF sorted = <<>> THEN <<band>>
    ELSE IF CompareX(band, Head(sorted)) < 0 THEN <<band>> \o sorted
    ELSE <<Head(sorted)>> \o InsertBand(Tail(sorted), band)

RECURSIVE SortBands(_)
\* finalBands.sort(CompareX): stable, ascending by the comparator.
SortBands(list) ==
    IF list = <<>> THEN <<>>
    ELSE InsertBand(SortBands(SubSeq(list, 1, Len(list) - 1)), list[Len(list)])

\* The segments of the averaged line.
SegmentsOf(averagedLine, colorChangeThreshold) ==
    SegmentLoop(averagedLine, colorChangeThreshold, 2, <<>>,
                [start_x |-> averagedLine[1].x, end_x |-> averagedLine[1].x,
                 pixels |-> <<averagedLine[1]>>])

\* The bands of the segments, in the order of x.
BandsOfSegments(segments, customColors) ==
    SortBands(ForEachSegment(segments, 1, MedianWidth(segments), customColors))

\* The bands of the averaged line.
BandsOfLine(averagedLine, colorChangeThreshold, customColors) ==
    IF Len(averagedLine) = 0 THEN <<>>
    ELSE BandsOfSegments(SegmentsOf(averagedLine, colorChangeThreshold), customColors)

\* The segments that extractBands builds of the image, none where it
\* returns before.
Segments(pixels, width, height, colorChangeThreshold) ==
    IF Len(pixels) = 0 \/ width = 0 \/ height = 0 THEN <<>>
    ELSE SegmentsOf(AveragedLine(pixels, width, height), colorChangeThreshold)

extractBands(pixels, width, height, colorChangeThreshold, customColors) ==
    IF Len(pixels) = 0 \/ width = 0 \/ height = 0 THEN <<>>
    ELSE BandsOfLine(AveragedLine(pixels, width, height), colorChangeThreshold, customColors)

---------------------------------------------------------------------------
(* The request handlers that use the learned-colour store                  *)
(*                                                                         *)
(* store.custom_colors is the list under the key "custom_colors"; a key    *)
(* that was never written reads as null, which both handlers replace by    *)
(* the empty list, so it is the empty list here.  The list holds names and *)
(* integers, which JSON.stringify and the JSON read give back unchanged.   *)
(* A handler takes one step per await that it resumes from.                *)

\* env.LEARNING_STORE ? await env.LEARNING_STORE.get("custom_colors") || [] : []
StoreGet(env) == IF env.configured THEN env.custom_colors ELSE <<>>

\* if (env.LEARNING_STORE) await env.LEARNING_STORE.put("custom_colors", ...),
\* without the test of the binding.
StorePutUnguarded(env, definitions) == [env EXCEPT !.custom_colors = definitions]

\* if (env.LEARNING_STORE) await env.LEARNING_STORE.put("custom_colors", ...)
StorePut(env, definitions) ==
    IF env.configured THEN [env EXCEPT !.custom_colors = definitions] ELSE env

NoCalls == [learn  |-> [get |-> 0, put |-> 0, failed |-> 0],
            detect |-> [get |-> 0, put |-> 0, failed |-> 0],
            value  |-> [get |-> 0, put |-> 0, failed |-> 0]]

\* The calls after one more call op ("get" or "put") by the handler, which
\* it issues only where the binding is configured.
Called(calls, handler, op, env) ==
    IF env.configured THEN [calls EXCEPT ![handler][op] = @ + 1] ELSE calls

\* The calls after a call op by the handler that the store fails.
CalledInVain(calls, handler, op) ==
    [calls EXCEPT ![handler][op] = @ + 1, ![handler].failed = @ + 1]

\* !detectedColor || !correctColorName
InvalidLearningData(body) ==
    \/ "detectedColor" \notin DOMAIN body
    \/ "correctColorName" \notin DOMAIN body
    \/ body.correctColorName = ""

\* The test with the red channel alone.
SameRed(def, detectedColor) == def.r = detectedColor.r

\* def.r === detectedColor.r && def.g === detectedColor.g && def.b === detectedColor.b
SameRGB(def, detectedColor) ==
    def.r = detectedColor.r /\ def.g = detectedColor.g /\ def.b = detectedColor.b

RECURSIVE FindIndexFrom(_, _, _)
FindIndexFrom(definitions, detectedColor, i) ==
    IF i > Len(definitions) THEN -1
    ELSE IF SameRGB(definitions[i], detectedColor) THEN i - 1
    ELSE FindIndexFrom(definitions, detectedColor, i + 1)

\* definitions.findIndex(...): the 0-based index of the first match, or -1.
ExistingIndex(definitions, detectedColor) == FindIndexFrom(definitions, detectedColor, 1)

NewDefinition(body) ==
    [name |-> body.correctColorName, r |-> body.detectedColor.r,
     g |-> body.detectedColor.g, b |-> body.detectedColor.b]

\* definitions after the replacement, without the push.
UpsertedInPlace(definitions, body) ==
    LET existingIndex == ExistingIndex(definitions, body.detectedColor)
    IN  IF existingIndex > -1
        THEN [definitions EXCEPT ![existingIndex + 1] = NewDefinition(body)]
        ELSE definitions

\* definitions after the replacement or the push.
Upserted(definitions, body) ==
    LET existingIndex == ExistingIndex(definitions, body.detectedColor)
    IN  IF existingIndex > -1
        THEN [definitions EXCEPT ![existingIndex + 1] = NewDefinition(body)]
        ELSE Append(definitions, NewDefinition(body))

InvalidLearningResponse == [status |-> 400, text |-> "Invalid learning data"]
LearnedResponse(body) == [status |-> 200, success |-> TRUE, learned |-> NewDefinition(body)]
NoResponse == [status |-> 0]

\* The message of the error that a failing store call throws.
StoreFault == "store fault"

\* No catch block: the error leaves the handler, which gives no response.
Rethrown(message) == [status |-> 0, thrown |-> message]

\* The response of a catch block: status 500, body {error: e.message}.
CatchResponse(message) == [status |-> 500, error |-> message]

LearnerIdle == [pc |-> "idle", body |-> [correctColorName |-> ""], definitions |-> <<>>,
                response |-> NoResponse]

\* handleLearn up to its first await on the store: the body is parsed and
\* validated.
LearnValidate(body) ==
    /\ learner.pc = "idle"
    /\ learnsLeft > 0
    /\ learnsLeft' = learnsLeft - 1
    /\ IF InvalidLearningData(body)
       THEN learner' = [pc |-> "idle", body |-> body, definitions |-> <<>>,
                        response |-> InvalidLearningResponse]
       ELSE learner' = [pc |-> "get", body |-> body, definitions |-> <<>>,
                        response |-> NoResponse]
    /\ storeCalls' = [storeCalls EXCEPT !.learn = NoCalls.learn]
    /\ UNCHANGED <<store, detector, coreRuns, valuer, rival, pureVars>>

\* The read of the list resolves; the definition is replaced or pushed and
\* the write is issued.
LearnGet ==
    /\ learner.pc = "get"
    /\ learner' = [learner EXCEPT !.pc = "put",
                                  !.definitions = Upserted(StoreGet(store), learner.body)]
    /\ storeCalls' = Called(storeCalls, "learn", "get", store)
    /\ UNCHANGED <<store, learnsLeft, detector, coreRuns, valuer, rival, pureVars>>

\* The write takes effect and the handler responds.
LearnPut ==
    /\ learner.pc = "put"
    /\ store' = StorePut(store, learner.definitions)
    /\ learner' = [learner EXCEPT !.pc = "idle", !.response = LearnedResponse(learner.body)]
    /\ storeCalls' = Called(storeCalls, "learn", "put", store)
    /\ UNCHANGED <<learnsLeft, detector, coreRuns, valuer, rival, pureVars>>

\* handleLearn for a second request that arrives while the first is being
\* served: up to its first await on the store.
RivalValidate(body) ==
    /\ rival.pc = "idle"
    /\ rival.response = NoResponse
    /\ IF InvalidLearningData(body)
       THEN rival' = [pc |-> "idle", body |-> body, definitions |-> <<>>,
                      response |-> InvalidLearningResponse]
       ELSE rival' = [pc |-> "get", body |-> body, definitions |-> <<>>,
                      response |-> NoResponse]
    /\ UNCHANGED <<store, learner, learnsLeft, detector, storeCalls, coreRuns, valuer, pureVars>>

\* The read of the second request resolves.
RivalGet ==
    /\ rival.pc = "get"
    /\ rival' = [rival EXCEPT !.pc = "put",
                              !.definitions = Upserted(StoreGet(store), rival.body)]
    /\ storeCalls' = Called(storeCalls, "learn", "get", store)
    /\ UNCHANGED <<store, learner, learnsLeft, detector, coreRuns, valuer, pureVars>>

\* The write of the second request takes effect and the handler responds.
RivalPut ==
    /\ rival.pc = "put"
    /\ store' = StorePut(store, rival.definitions)
    /\ rival' = [rival EXCEPT !.pc = "idle", !.response = LearnedResponse(rival.body)]
    /\ storeCalls' = Called(storeCalls, "learn", "put", store)
    /\ UNCHANGED <<learner, learnsLeft, detector, coreRuns, valuer, pureVars>>

\* The read of the list fails: the catch block responds.
LearnGetFails ==
    /\ learner.pc = "get"
    /\ store.configured
    /\ learner' = [learner EXCEPT !.pc = "idle", !.response = CatchResponse(StoreFault)]
    /\ storeCalls' = CalledInVain(storeCalls, "learn", "get")
    /\ UNCHANGED <<store, learnsLeft, detector, coreRuns, valuer, rival, pureVars>>

\* The write fails and leaves the list as it was: the catch block responds.
LearnPutFails ==
    /\ learner.pc = "put"
    /\ store.configured
    /\ learner' = [learner EXCEPT !.pc = "idle", !.response = CatchResponse(StoreFault)]
    /\ storeCalls' = CalledInVain(storeCalls, "learn", "put")
    /\ UNCHANGED <<store, learnsLeft, detector, coreRuns, valuer, rival, pureVars>>

\* name.toLowerCase() includes 'body', 'beige' or 'tan', for the names of
\* the catalog and of the learned colours.
IsBodyName(name) == name \in BodyNames

\* The bands with their mark as body by name.
MarkedByName(bands) ==
    [i \in 1..Len(bands) |->
        [x |-> bands[i].x, colorName |-> bands[i].colorName, rgb |-> bands[i].rgb,
         l |-> bands[i].l, width |-> bands[i].width, chroma |-> bands[i].chroma,
         isBody |-> IsBodyName(bands[i].colorName)]]

\* The marked bands, with those wider than 2.5 times the median marked too.
MarkedByWidth(processedBands, medianWidth) ==
    [i \in 1..Len(processedBands) |->
        IF 2 * processedBands[i].width > 5 * medianWidth
        THEN [processedBands[i] EXCEPT !.isBody = TRUE] ELSE processedBands[i]]

\* widths[Math.floor(widths.length / 2)] of the sorted widths
MedianOfSorted(widths) == widths[Len(widths) \div 2 + 1]

\* The second marking, which needs three bands or more.
MarkedWide(processedBands) ==
    IF Len(processedBands) >= 3
    THEN MarkedByWidth(processedBands,
             MedianOfSorted(SortNumbers([i \in 1..Len(processedBands) |-> processedBands[i].width])))
    ELSE processedBands

\* The bands marked as body by name, and by width where there are three or more.
ProcessedBands(bands) == MarkedWide(MarkedByName(bands))

\* !threshold
ThresholdFalsy(body) == "threshold" \notin DOMAIN body \/ body.threshold = 0

\* threshold === undefined
ThresholdMissing(body) == "threshold" \notin DOMAIN body

\* !pixels || !Array.isArray(pixels) || !width || !height || threshold === undefined
InvalidData(body) ==
    \/ "pixels" \notin DOMAIN body
    \/ "width" \notin DOMAIN body \/ "height" \notin DOMAIN body
    \/ ThresholdMissing(body)
    \/ body.width = 0 \/ body.height = 0

InvalidDataResponse == [status |-> 400, text |-> "Invalid data"]

\* The names in the reverse order.
BandNamesReversed(filteredBands) ==
    [i \in 1..Len(filteredBands) |-> filteredBands[Len(filteredBands) + 1 - i].colorName]

BandNames(filteredBands) == [i \in 1..Len(filteredBands) |-> filteredBands[i].colorName]

\* The response with the bands that are left.
BandsResponse(filteredBands) ==
    [status |-> 200, success |-> TRUE, bands |-> filteredBands,
     detected_bands |-> BandNames(filteredBands),
     resistor_value |-> calculateResistorValue(BandNames(filteredBands))]

\* The response of handleEdgeDetection to a body, given the learned colours.
DetectionResponse(body, customColors) ==
    IF InvalidData(body) THEN InvalidDataResponse
    ELSE BandsResponse(SelectSeq(
             ProcessedBands(extractBands(body.pixels, body.width, body.height, body.threshold,
                                         customColors)),
             LAMBDA b : ~b.isBody))

DetectorOff == [pc |-> "off", body |-> [width |-> 0], customColors |-> <<>>, response |-> NoResponse]

\* The list as the store holds it when the bands are extracted.
StoreAtExtraction(customColors, env) == StoreGet(env)

\* The list that extractBands is given: the one read at the start.
ExtractionColors(customColors, env) == customColors

\* handleEdgeDetection up to the end of its read of the store: the body is
\* parsed and the list is read.
DetectRead ==
    /\ detector.pc = "start"
    /\ detector' = [detector EXCEPT !.pc = "read", !.customColors = StoreGet(store)]
    /\ storeCalls' = Called(storeCalls, "detect", "get", store)
    /\ UNCHANGED <<store, learner, learnsLeft, coreRuns, valuer, rival, pureVars>>

\* The read of the list fails: the catch block responds.
DetectReadFails ==
    /\ detector.pc = "start"
    /\ store.configured
    /\ detector' = [detector EXCEPT !.pc = "done", !.response = CatchResponse(StoreFault)]
    /\ storeCalls' = CalledInVain(storeCalls, "detect", "get")
    /\ UNCHANGED <<store, learner, learnsLeft, coreRuns, valuer, rival, pureVars>>

\* The rest of handleEdgeDetection: validation, extraction, body filter,
\* value and response.
DetectRespond ==
    /\ detector.pc = "read"
    /\ detector' = [detector EXCEPT
                       !.pc = "done",
                       !.response = DetectionResponse(detector.body,
                                        ExtractionColors(detector.customColors, store))]
    /\ coreRuns' = IF InvalidData(detector.body) THEN {}
                   ELSE {"extractBands", "calculateResistorValue"}
    /\ UNCHANGED <<store, learner, learnsLeft, storeCalls, valuer, rival, pureVars>>

\* handleLearnFromValue.  A JSON value of the body that is an array is
\* [json |-> "array", items |-> ...]; one that is a string is
\* [json |-> "string", text |-> ...].

\* !detectedBands || !Array.isArray(detectedBands) || !correctValue
InvalidInputData(body) ==
    \/ "detectedBands" \notin DOMAIN body
    \/ body.detectedBands.json = "string" /\ body.detectedBands.text = <<>>
    \/ body.detectedBands.json # "array"
    \/ "correctValue" \notin DOMAIN body
    \/ body.correctValue = <<>>

\* The argument correctTolerance, whose default stands in for undefined.
ToleranceOf(body) ==
    IF "correctTolerance" \in DOMAIN body THEN body.correctTolerance ELSE NoTolerance

ErrorResponse(status, message) == [status |-> status, error |-> message]

\* correctColorSequence.length === 0, never true.
NoSequenceNever(correctColorSequence) == FALSE

\* correctColorSequence.length === 0
NoSequence(correctColorSequence) == Len(correctColorSequence) = 0

\* The response once the sequence is computed.
SequenceResponse(body, correctColorSequence) ==
    IF NoSequence(correctColorSequence)
    THEN ErrorResponse(400, "Could not determine sequence.")
    ELSE [status |-> 200, success |-> TRUE,
          message |-> "Value parsed, correct sequence determined.",
          correctColorSequence |-> correctColorSequence,
          yourDetectedBands |-> body.detectedBands]

\* The response once the value is parsed.
ParsedResponse(body, parsed) ==
    IF IsNull(parsed) THEN ErrorResponse(400, "Invalid resistance value format.")
    ELSE SequenceResponse(body, resistanceToColors(parsed, ToleranceOf(body)))

ValueResponse(body) ==
    IF InvalidInputData(body) THEN ErrorResponse(400, "Invalid input data.")
    ELSE ParsedResponse(body, parseResistance(body.correctValue))

ValuerOff == [pc |-> "off", body |-> [detectedBands |-> [json |-> "array", items |-> <<>>]],
              response |-> NoResponse]

\* The handler has no await after the body is read: one step.
LearnFromValue ==
    /\ valuer.pc = "start"
    /\ valuer' = [valuer EXCEPT !.pc = "done", !.response = ValueResponse(valuer.body)]
    /\ UNCHANGED <<store, learner, learnsLeft, detector, storeCalls, coreRuns, rival, pureVars>>

---------------------------------------------------------------------------
(* The decoder applied to every list of names                              *)

MaxBands == 4

\* The names a caller passes: catalog names of every role, and one that
\* the catalog does not hold.
DecodeNames == {"Black", "Brown", "Red", "Orange", "Yellow", "Violet", "White",
                "Gold", "Silver", "Gold_Light", "Tan (Body)", "Pink"}

NameLists == UNION {[1..n -> DecodeNames] : n \in 0..MaxBands}

EncoderIdle ==
    /\ ohms = [m |-> 0, e |-> 0]
    /\ correctTolerance = NoTolerance
    /\ colorSequence = <<>>
    /\ roundTrip = Pending

DecoderIdle ==
    /\ bandNames = <<>>
    /\ resistorValue = Pending
    /\ filtered = <<>>
    /\ refiltered = <<>>

NoColor == [name |-> "none"]

ServiceIdle ==
    /\ store = [configured |-> FALSE, custom_colors |-> <<>>]
    /\ learner = LearnerIdle
    /\ learnsLeft = 0
    /\ detector = DetectorOff
    /\ storeCalls = NoCalls
    /\ coreRuns = {}
    /\ valuer = ValuerOff
    /\ rival = LearnerIdle

NoImage == [pixels |-> <<>>, width |-> 0, height |-> 0]

ExtractorIdle ==
    /\ image = NoImage
    /\ changeThreshold = 0
    /\ taughtColors = <<>>
    /\ extracted = <<>>
    /\ rawSegments = <<>>

ClassifierIdle ==
    /\ targetPixel = [r |-> 0, g |-> 0, b |-> 0]
    /\ learnedColors = <<>>
    /\ closestColor = NoColor

InitDecode ==
    /\ phase = "decode"
    /\ bandNames \in NameLists
    /\ resistorValue = Pending
    /\ filtered = <<>>
    /\ refiltered = <<>>
    /\ EncoderIdle
    /\ ClassifierIdle
    /\ ExtractorIdle
    /\ ServiceIdle

Decode ==
    /\ phase = "decode"
    /\ resistorValue' = calculateResistorValue(bandNames)
    /\ phase' = "done"
    /\ UNCHANGED <<bandNames, filtered, refiltered, encoderVars, classifierVars, extractorVars, serviceVars>>

NextDecode == Decode

SpecDecode == InitDecode /\ [][NextDecode]_vars

---------------------------------------------------------------------------
(* The removal of the dominant name, applied to lists of names             *)

\* The names that body removal sees: two band colours and a body colour.
FilterNames == {"Red", "Brown", "Tan (Body)"}

InitFilter ==
    /\ phase = "filter"
    /\ bandNames \in UNION {[1..n -> FilterNames] : n \in 0..MaxBands}
    /\ resistorValue = Pending
    /\ filtered = <<>>
    /\ refiltered = <<>>
    /\ EncoderIdle
    /\ ClassifierIdle
    /\ ExtractorIdle
    /\ ServiceIdle

\* The removal applied to the names, and once more to its result.
Filter ==
    /\ phase = "filter"
    /\ filtered' = ExcludeDominant(bandNames)
    /\ phase' = "filtered"
    /\ UNCHANGED <<bandNames, resistorValue, refiltered, encoderVars, classifierVars,
                   extractorVars, serviceVars>>

FilterAgain ==
    /\ phase = "filtered"
    /\ refiltered' = ExcludeDominant(filtered)
    /\ phase' = "done"
    /\ UNCHANGED <<bandNames, resistorValue, filtered, encoderVars, classifierVars,
                   extractorVars, serviceVars>>

NextFilter == Filter \/ FilterAgain

SpecFilter == InitFilter /\ [][NextFilter]_vars

---------------------------------------------------------------------------
(* The encoder applied to every resistance m * 10^e, and its result        *)
(* decoded again                                                           *)

MaxMantissa == 999
MaxNegExp == 3
MaxExp == 10

ToleranceInputs == DOMAIN toleranceMap \cup {NoTolerance, "", "3", "0.05", "constructor"}

InitEncode ==
    /\ phase = "encode"
    /\ ohms \in [m : 0..MaxMantissa, e : (-MaxNegExp)..MaxExp]
    /\ correctTolerance \in ToleranceInputs
    /\ colorSequence = <<>>
    /\ roundTrip = Pending
    /\ DecoderIdle
    /\ ClassifierIdle
    /\ ExtractorIdle
    /\ ServiceIdle

Encode ==
    /\ phase = "encode"
    /\ colorSequence' = resistanceToColors(ohms, correctTolerance)
    /\ phase' = "encoded"
    /\ UNCHANGED <<ohms, correctTolerance, roundTrip, decoderVars, classifierVars, extractorVars, serviceVars>>

DecodeBack ==
    /\ phase = "encoded"
    /\ roundTrip' = calculateResistorValue(colorSequence)
    /\ phase' = "done"
    /\ UNCHANGED <<ohms, correctTolerance, colorSequence, decoderVars, classifierVars, extractorVars, serviceVars>>

NextEncode == Encode \/ DecodeBack

SpecEncode == InitEncode /\ [][NextEncode]_vars

---------------------------------------------------------------------------
(* The classifier applied to pixels and lists of learned colours           *)

GridSteps == 2
MaxCustom == 1

\* The colours classified: every catalog colour, every colour whose
\* channels are on a grid over 0..255, and one with a channel far below 0.
GridLevels == {(255 * k) \div GridSteps : k \in 0..GridSteps}
CatalogRGB == {[r |-> RESISTOR_COLORS[i].r, g |-> RESISTOR_COLORS[i].g, b |-> RESISTOR_COLORS[i].b] :
                 i \in CatalogIdx}
Pixels == CatalogRGB \cup [r : GridLevels, g : GridLevels, b : GridLevels]
              \cup {[r |-> HugeNegative, g |-> 0, b |-> 0]}

\* The colours a user has taught: those of three catalog entries (a Gold
\* shade, a body colour, the dark violet) and one that is no catalog colour.
LearnedRGB == {[r |-> 212, g |-> 175, b |-> 55], [r |-> 255, g |-> 253, b |-> 208],
               [r |-> 100, g |-> 50, b |-> 150], [r |-> 200, g |-> 30, b |-> 40]}
CustomColorSet == {[name |-> n, r |-> c.r, g |-> c.g, b |-> c.b] : n \in CustomNames, c \in LearnedRGB}
CustomLists == UNION {[1..n -> CustomColorSet] : n \in 0..MaxCustom}

InitClassify ==
    /\ phase = "classify"
    /\ targetPixel \in Pixels
    /\ learnedColors \in CustomLists
    /\ closestColor = NoColor
    /\ DecoderIdle
    /\ EncoderIdle
    /\ ExtractorIdle
    /\ ServiceIdle

Classify ==
    /\ phase = "classify"
    /\ closestColor' = findClosestColor(targetPixel, learnedColors)
    /\ phase' = "done"
    /\ UNCHANGED <<targetPixel, learnedColors, decoderVars, encoderVars, extractorVars, serviceVars>>

NextClassify == Classify

SpecClassify == InitClassify /\ [][NextClassify]_vars

---------------------------------------------------------------------------
(* The extractor applied to striped images                                 *)

MaxRuns == 4
MaxHeight == 2

\* The stripes: a band colour (red), a body colour (tan) and a metallic
\* gold, each as wide as a band, and red and gold too narrow to be kept and
\* tan as wide as a body.
Red255   == [r |-> 255, g |-> 0, b |-> 0]
TanBody  == [r |-> 210, g |-> 180, b |-> 140]
GoldFoil == [r |-> 212, g |-> 175, b |-> 55]
Stripes == {[color |-> Red255, len |-> 3], [color |-> Red255, len |-> 1],
            [color |-> TanBody, len |-> 3], [color |-> TanBody, len |-> 8],
            [color |-> GoldFoil, len |-> 3], [color |-> GoldFoil, len |-> 1]}

\* The lists of stripes in which neighbours differ in colour.
StripeLists ==
    {runs \in UNION {[1..n -> Stripes] : n \in 1..MaxRuns} :
        \A i \in 1..(Len(runs) - 1) : runs[i].color # runs[i + 1].color}

RECURSIVE RowOf(_)
\* One row of pixels: each stripe's colour, repeated over its width.
RowOf(runs) ==
    IF runs = <<>> THEN <<>>
    ELSE [i \in 1..Head(runs).len |-> Head(runs).color] \o RowOf(Tail(runs))

RECURSIVE Repeat(_, _)
Repeat(row, n) == IF n = 0 THEN <<>> ELSE row \o Repeat(row, n - 1)

\* The image of the given height whose rows all show the stripes.
ImageOf(runs, h) == [pixels |-> Repeat(RowOf(runs), h), width |-> Len(RowOf(runs)), height |-> h]

Images == {ImageOf(runs, h) : runs \in StripeLists, h \in 1..MaxHeight}

\* The threshold that the scanner uses.
ScanThreshold == 10

InitBands ==
    /\ phase = "extract"
    /\ image \in Images
    /\ changeThreshold = ScanThreshold
    /\ taughtColors = <<>>
    /\ extracted = <<>>
    /\ rawSegments = <<>>
    /\ DecoderIdle
    /\ EncoderIdle
    /\ ClassifierIdle
    /\ ServiceIdle

Extract ==
    /\ phase = "extract"
    /\ extracted' = extractBands(image.pixels, image.width, image.height, changeThreshold, taughtColors)
    /\ rawSegments' = Segments(image.pixels, image.width, image.height, changeThreshold)
    /\ phase' = "done"
    /\ UNCHANGED <<image, changeThreshold, taughtColors, decoderVars, encoderVars, classifierVars, serviceVars>>

NextBands == Extract

SpecBands == InitBands /\ [][NextBands]_vars

---------------------------------------------------------------------------
(* The extractor applied to images with dark, white and narrow stripes,    *)
(* at two thresholds, with and without a learned colour                    *)

NearBlack == [r |-> 5, g |-> 4, b |-> 0]
White255  == [r |-> 255, g |-> 255, b |-> 255]

\* The stripes: a band colour, the body, a colour too dark and one too
\* light to be kept unless it is metallic, and a stripe too narrow to be kept.
SegmentStripes == {[color |-> Red255, len |-> 3], [color |-> TanBody, len |-> 4],
                   [color |-> NearBlack, len |-> 3], [color |-> White255, len |-> 3],
                   [color |-> GoldFoil, len |-> 1]}

SegmentStripeLists ==
    {runs \in UNION {[1..n -> SegmentStripes] : n \in 1..MaxRuns} :
        \A i \in 1..(Len(runs) - 1) : runs[i].color # runs[i + 1].color}

\* The dark colour taught as a shade of gold.
DarkGold == [name |-> "Gold_Dark", r |-> 5, g |-> 4, b |-> 0]

\* The thresholds and the lists of learned colours: the scanner's threshold
\* with and without the learned colour, and the threshold 0.
SegmentSettings == {[threshold |-> 0, customColors |-> <<>>],
                    [threshold |-> ScanThreshold, customColors |-> <<>>],
                    [threshold |-> ScanThreshold, customColors |-> <<DarkGold>>]}

InitSegments ==
    /\ phase = "extract"
    /\ image \in {ImageOf(runs, MaxHeight) : runs \in SegmentStripeLists}
    /\ \E setting \in SegmentSettings :
          /\ changeThreshold = setting.threshold
          /\ taughtColors = setting.customColors
    /\ extracted = <<>>
    /\ rawSegments = <<>>
    /\ DecoderIdle
    /\ EncoderIdle
    /\ ClassifierIdle
    /\ ServiceIdle

NextSegments == Extract

SpecSegments == InitSegments /\ [][NextSegments]_vars

---------------------------------------------------------------------------
(* The extractor applied to images with saturated body colours, with a     *)
(* green taught as a body colour                                           *)

SandyBody == [r |-> 244, g |-> 164, b |-> 96]
LeafGreen == [r |-> 0, g |-> 130, b |-> 0]

\* The stripes: a band colour, a pale body colour as wide as a body, and two
\* saturated colours that are classified as body, one warm and one not, as
\* wide as a band; the band colour also as wide as a body.
RescueStripes == {[color |-> Red255, len |-> 3], [color |-> Red255, len |-> 8],
                  [color |-> TanBody, len |-> 8],
                  [color |-> SandyBody, len |-> 3], [color |-> LeafGreen, len |-> 3]}

RescueStripeLists ==
    {runs \in UNION {[1..n -> RescueStripes] : n \in 1..MaxRuns} :
        \A i \in 1..(Len(runs) - 1) : runs[i].color # runs[i + 1].color}

\* The green taught under the name of a body colour.
LeafAsBody == [name |-> "Tan (Body)", r |-> 0, g |-> 130, b |-> 0]

InitRescue ==
    /\ phase = "extract"
    /\ image \in {ImageOf(runs, MaxHeight) : runs \in RescueStripeLists}
    /\ changeThreshold = ScanThreshold
    /\ taughtColors = <<LeafAsBody>>
    /\ extracted = <<>>
    /\ rawSegments = <<>>
    /\ DecoderIdle
    /\ EncoderIdle
    /\ ClassifierIdle
    /\ ServiceIdle

NextRescue == Extract

SpecRescue == InitRescue /\ [][NextRescue]_vars

---------------------------------------------------------------------------
(* Learn requests, one after the other                                     *)

MaxLearns == 2
MaxStored == 2

OffRed == [r |-> 200, g |-> 30, b |-> 40]

\* The colours that are taught: two that differ in one channel only, and
\* the metallic gold.
DetectedColors == {OffRed, [r |-> 200, g |-> 31, b |-> 40], GoldFoil}
LearnNames == {"Mauve", "Red"}

\* The bodies of the learn requests: the valid ones, those with an empty
\* name and those without a colour.
LearnBodies ==
    [detectedColor : DetectedColors, correctColorName : LearnNames \cup {""}]
        \cup [correctColorName : LearnNames]

DistinctRGB(definitions) ==
    \A i, j \in 1..Len(definitions) :
        (/\ definitions[i].r = definitions[j].r
         /\ definitions[i].g = definitions[j].g
         /\ definitions[i].b = definitions[j].b) => i = j

\* The lists that the store holds at the start: one entry per colour.
StoredLists ==
    {list \in UNION {[1..n -> [name : LearnNames, r : {200, 212}, g : {30, 31, 175}, b : {40, 55}]] :
                        n \in 0..MaxStored} :
        /\ DistinctRGB(list)
        /\ \A i \in 1..Len(list) : [r |-> list[i].r, g |-> list[i].g, b |-> list[i].b] \in DetectedColors}

PureIdle ==
    /\ DecoderIdle
    /\ EncoderIdle
    /\ ClassifierIdle
    /\ ExtractorIdle

InitLearn ==
    /\ phase = "serve"
    /\ store \in [configured : BOOLEAN, custom_colors : StoredLists]
    /\ store.configured \/ store.custom_colors = <<>>
    /\ learner = LearnerIdle
    /\ learnsLeft = MaxLearns
    /\ detector = DetectorOff
    /\ storeCalls = NoCalls
    /\ coreRuns = {}
    /\ valuer = ValuerOff
    /\ rival = LearnerIdle
    /\ PureIdle

NextLearn ==
    \/ \E body \in LearnBodies : LearnValidate(body)
    \/ LearnGet
    \/ LearnPut

SpecLearn == InitLearn /\ [][NextLearn]_vars

---------------------------------------------------------------------------
(* A learn request, and then the classification of the colour taught       *)

\* The names taught: one that the catalog does not hold, a shade of Gold
\* and the dark violet.
TeachNames == {"Mauve", "Gold_Dark", "Violet_Dark"}

TeachBodies == [detectedColor : DetectedColors, correctColorName : TeachNames]
                   \cup [correctColorName : TeachNames]

InitTeach ==
    /\ phase = "serve"
    /\ store \in [configured : BOOLEAN, custom_colors : StoredLists]
    /\ store.configured \/ store.custom_colors = <<>>
    /\ learner = LearnerIdle
    /\ learnsLeft = 1
    /\ detector = DetectorOff
    /\ storeCalls = NoCalls
    /\ coreRuns = {}
    /\ valuer = ValuerOff
    /\ rival = LearnerIdle
    /\ PureIdle

\* After the success of the learn request, findClosestColor is called with
\* a pixel of the colour taught and with the list that the store holds.
ClassifyLearned ==
    /\ phase = "serve"
    /\ learner.pc = "idle"
    /\ learner.response.status = 200
    /\ targetPixel' = learner.body.detectedColor
    /\ learnedColors' = StoreGet(store)
    /\ closestColor' = findClosestColor(learner.body.detectedColor, StoreGet(store))
    /\ phase' = "done"
    /\ UNCHANGED <<decoderVars, encoderVars, extractorVars, serviceVars>>

NextTeach ==
    \/ \E body \in TeachBodies : LearnValidate(body)
    \/ LearnGet
    \/ LearnPut
    \/ ClassifyLearned

SpecTeach == InitTeach /\ [][NextTeach]_vars

---------------------------------------------------------------------------
(* Two learn requests served at once                                       *)

\* The bodies of the two requests: valid ones, and one without a colour.
RaceBodies == [detectedColor : DetectedColors, correctColorName : {"Mauve"}]
                  \cup [correctColorName : {"Mauve"}]

InitRace ==
    /\ phase = "serve"
    /\ store \in [configured : BOOLEAN, custom_colors : StoredLists]
    /\ store.configured \/ store.custom_colors = <<>>
    /\ learner = LearnerIdle
    /\ learnsLeft = 1
    /\ detector = DetectorOff
    /\ storeCalls = NoCalls
    /\ coreRuns = {}
    /\ valuer = ValuerOff
    /\ rival = LearnerIdle
    /\ PureIdle

NextRace ==
    \/ \E body \in RaceBodies : LearnValidate(body)
    \/ LearnGet
    \/ LearnPut
    \/ \E body \in RaceBodies : RivalValidate(body)
    \/ RivalGet
    \/ RivalPut

SpecRace == InitRace /\ [][NextRace]_vars

---------------------------------------------------------------------------
(* A detection request and a learn request at the same time                *)

\* Five stripes, the off-red one between two body stripes and away from
\* the ends, and three stripes with it at an end.
DetectImages ==
    {ImageOf(<<[color |-> TanBody, len |-> 3], [color |-> OffRed, len |-> 3],
               [color |-> TanBody, len |-> 3], [color |-> Red255, len |-> 3],
               [color |-> TanBody, len |-> 3]>>, 2),
     ImageOf(<<[color |-> OffRed, len |-> 3], [color |-> TanBody, len |-> 8],
               [color |-> GoldFoil, len |-> 3]>>, 2),
     ImageOf(<<[color |-> TanBody, len |-> 3], [color |-> Red255, len |-> 3],
               [color |-> TanBody, len |-> 3], [color |-> OffRed, len |-> 3],
               [color |-> TanBody, len |-> 3], [color |-> Red255, len |-> 3],
               [color |-> TanBody, len |-> 3]>>, 2)}

\* The bodies of the detection requests: images with the scanner's
\* threshold and with the threshold 0, one of no width, and one without
\* each of the four fields.
DetectBodies ==
    {[pixels |-> im.pixels, width |-> im.width, height |-> im.height, threshold |-> t] :
        im \in DetectImages, t \in {0, ScanThreshold}}
    \cup {[pixels |-> <<OffRed>>, width |-> 0, height |-> 1, threshold |-> ScanThreshold],
          [pixels |-> <<OffRed>>, width |-> 1, height |-> 1],
          [width |-> 1, height |-> 1, threshold |-> ScanThreshold],
          [pixels |-> <<OffRed>>, height |-> 1, threshold |-> ScanThreshold],
          [pixels |-> <<OffRed>>, width |-> 1, threshold |-> ScanThreshold]}

InitDetect ==
    /\ phase = "serve"
    /\ store \in [configured : BOOLEAN, custom_colors : {list \in StoredLists : Len(list) <= 1}]
    /\ store.configured \/ store.custom_colors = <<>>
    /\ learner = LearnerIdle
    /\ learnsLeft = 1
    /\ \E body \in DetectBodies :
          detector = [pc |-> "start", body |-> body, customColors |-> <<>>, response |-> NoResponse]
    /\ storeCalls = NoCalls
    /\ coreRuns = {}
    /\ valuer = ValuerOff
    /\ rival = LearnerIdle
    /\ PureIdle

NextDetect ==
    \/ \E body \in LearnBodies : LearnValidate(body)
    \/ LearnGet
    \/ LearnPut
    \/ DetectRead
    \/ DetectRespond

SpecDetect == InitDetect /\ [][NextDetect]_vars

---------------------------------------------------------------------------
(* Detection requests for images with a wide stripe                        *)

\* The images: a wide metallic gold at the end, a wide body in the middle,
\* a wide red in the middle, and stripes of one width.
WideImages ==
    {ImageOf(<<[color |-> Red255, len |-> 3], [color |-> TanBody, len |-> 3],
               [color |-> Red255, len |-> 3], [color |-> TanBody, len |-> 3],
               [color |-> GoldFoil, len |-> 8]>>, 2),
     ImageOf(<<[color |-> Red255, len |-> 3], [color |-> TanBody, len |-> 8],
               [color |-> Red255, len |-> 3], [color |-> GoldFoil, len |-> 3]>>, 2),
     ImageOf(<<[color |-> OffRed, len |-> 3], [color |-> Red255, len |-> 8],
               [color |-> TanBody, len |-> 3], [color |-> Red255, len |-> 3]>>, 2),
     ImageOf(<<[color |-> Red255, len |-> 3], [color |-> TanBody, len |-> 3],
               [color |-> Red255, len |-> 3], [color |-> GoldFoil, len |-> 3]>>, 2)}

InitWide ==
    /\ phase = "serve"
    /\ store \in [configured : BOOLEAN, custom_colors : {list \in StoredLists : Len(list) <= 1}]
    /\ store.configured \/ store.custom_colors = <<>>
    /\ learner = LearnerIdle
    /\ learnsLeft = 0
    /\ \E im \in WideImages, t \in {0, ScanThreshold} :
          detector = [pc |-> "start",
                      body |-> [pixels |-> im.pixels, width |-> im.width, height |-> im.height,
                                threshold |-> t],
                      customColors |-> <<>>, response |-> NoResponse]
    /\ storeCalls = NoCalls
    /\ coreRuns = {}
    /\ valuer = ValuerOff
    /\ rival = LearnerIdle
    /\ PureIdle

NextWide == DetectRead \/ DetectRespond

SpecWide == InitWide /\ [][NextWide]_vars

---------------------------------------------------------------------------
(* A detection request and learn requests over a store whose calls may     *)
(* fail                                                                    *)

\* The bodies that are rejected and those of the narrowest image.
FaultBodies == {body \in DetectBodies : InvalidData(body) \/ body.width <= 14}

InitFaults ==
    /\ phase = "serve"
    /\ store \in [configured : BOOLEAN, custom_colors : {list \in StoredLists : Len(list) <= 1}]
    /\ store.configured \/ store.custom_colors = <<>>
    /\ learner = LearnerIdle
    /\ learnsLeft = 1
    /\ \E body \in FaultBodies :
          detector = [pc |-> "start", body |-> body, customColors |-> <<>>, response |-> NoResponse]
    /\ storeCalls = NoCalls
    /\ coreRuns = {}
    /\ valuer = ValuerOff
    /\ rival = LearnerIdle
    /\ PureIdle

NextFaults ==
    \/ \E body \in LearnBodies : LearnValidate(body)
    \/ LearnGet
    \/ LearnGetFails
    \/ LearnPut
    \/ LearnPutFails
    \/ DetectRead
    \/ DetectReadFails
    \/ DetectRespond

SpecFaults == InitFaults /\ [][NextFaults]_vars

---------------------------------------------------------------------------
(* Learn-from-value requests                                               *)

\* The values that the requests give: with and without a suffix, a
\* fraction, an exponent, a sign and white space, and strings without a
\* number.
ValueStrings ==
    {<<"4", ".", "7", "k">>, <<"1", "0", "0", "0">>, <<" ", "2", "2", "0", " ">>,
     <<"1", "M">>, <<"a", "b", "c">>, <<"k">>, <<"0">>, <<"0", ".", "0", "5">>,
     <<"-", "5">>, <<"1", "e", "3">>, <<"1", "0", "K", "o", "h", "m">>,
     <<".", "5">>, <<"4", "7", " ", "k">>, <<"1", "0", "0", "G">>, <<" ">>}

DetectedBandLists ==
    {[json |-> "array", items |-> <<>>],
     [json |-> "array", items |-> <<"Red", "Red", "Brown">>],
     [json |-> "array", items |-> <<"Yellow", "Violet", "Tan (Body)", "Gold">>],
     [json |-> "string", text |-> <<"R", "e", "d">>]}

ValueBodies ==
    [detectedBands : DetectedBandLists, correctValue : ValueStrings \cup {<<>>},
     correctTolerance : {"5", "20", NoTolerance}]
    \cup [detectedBands : DetectedBandLists, correctValue : ValueStrings]
    \cup [detectedBands : DetectedBandLists, correctTolerance : {"5"}]
    \cup [correctValue : ValueStrings, correctTolerance : {"5"}]

InitValue ==
    /\ phase = "serve"
    /\ store \in [configured : BOOLEAN, custom_colors : {list \in StoredLists : Len(list) <= 1}]
    /\ store.configured \/ store.custom_colors = <<>>
    /\ learner = LearnerIdle
    /\ learnsLeft = 0
    /\ detector = DetectorOff
    /\ storeCalls = NoCalls
    /\ coreRuns = {}
    /\ \E body \in ValueBodies : valuer = [pc |-> "start", body |-> body, response |-> NoResponse]
    /\ rival = LearnerIdle
    /\ PureIdle

NextValue == LearnFromValue

SpecValue == InitValue /\ [][NextValue]_vars

---------------------------------------------------------------------------
(* Properties of the decoder and of the encoder                            *)

\* The catalog entry of the i-th name of a list, for a name that resolves.
EntryAt(names, i) == FindByName(names[i])

\* The positions of a list whose names resolve in the catalog.
ResolvedAt(names) == {i \in 1..Len(names) : names[i] \in CatalogNames}

\* Role assignment as the specification words it, on positions: the last
\* resolved position is the tolerance band when its entry has a tolerance
\* and the multiplier band otherwise.
LastResolved(names) == CHOOSE i \in ResolvedAt(names) : \A j \in ResolvedAt(names) : j <= i
TolerancePos(names) ==
    IF "tolerance" \in DOMAIN EntryAt(names, LastResolved(names))
    THEN {LastResolved(names)} ELSE {}
MultiplierPos(names) ==
    LET rest == ResolvedAt(names) \ TolerancePos(names)
    IN  CHOOSE i \in rest : \A j \in rest : j <= i
DigitPos(names) == (ResolvedAt(names) \ TolerancePos(names)) \ {MultiplierPos(names)}

RECURSIVE Concat10(_, _, _)
\* The digit values at positions ps of names, read as one base-10 number:
\* [1, 0] is 10.
Concat10(names, ps, acc) ==
    IF ps = {} THEN acc
    ELSE LET i == CHOOSE k \in ps : \A j \in ps : k <= j
         IN  Concat10(names, ps \ {i}, acc * 10 + EntryAt(names, i).value)

Decodable(names) ==
    /\ Cardinality(ResolvedAt(names)) >= 3
    /\ \A i \in DigitPos(names) : "value" \in DOMAIN EntryAt(names, i)
    /\ "multiplier" \in DOMAIN EntryAt(names, MultiplierPos(names))

ClaimedValue(names) ==
    formatResistance(Concat10(names, DigitPos(names), 0),
                     EntryAt(names, MultiplierPos(names)).multiplier)
      \o <<" ", PlusMinus>>
      \o (IF TolerancePos(names) = {} THEN DefaultTolerance
          ELSE EntryAt(names, LastResolved(names)).tolerance)
      \o <<"%">>

\* C1: for every list of at least 3 names that all resolve in the catalog,
\* whose digit bands all have a value and whose multiplier band has a
\* multiplier, calculateResistorValue returns the base-10 concatenation of
\* the digit values times the multiplier, formatted, followed by the
\* tolerance of the tolerance band (20 when there is none).
C1_DecodesDigitsTimesMultiplier ==
    (/\ phase = "done"
     /\ Len(bandNames) >= 3
     /\ \A i \in 1..Len(bandNames) : bandNames[i] \in CatalogNames
     /\ Decodable(bandNames))
    => resistorValue = ClaimedValue(bandNames)

\* C5: calculateResistorValue returns null for fewer than 3 names, "Not
\* enough valid bands" when at least 3 names are given and fewer than 3
\* resolve, "Invalid band sequence" when a digit band has no value or the
\* multiplier band has no multiplier, and a formatted string otherwise.
C5_ErrorOutcomes ==
    phase = "done" =>
        /\ Len(bandNames) < 3 => resistorValue = Null
        /\ (Len(bandNames) >= 3 /\ Cardinality(ResolvedAt(bandNames)) < 3)
              => resistorValue = NotEnoughValidBands
        /\ (Cardinality(ResolvedAt(bandNames)) >= 3 /\ ~Decodable(bandNames))
              => resistorValue = InvalidBandSequence
        /\ (Len(bandNames) >= 3 /\ Decodable(bandNames))
              => /\ resistorValue \notin {Null, NotEnoughValidBands, InvalidBandSequence}
                 /\ resistorValue[Len(resistorValue)] = "%"

\* C5's case: four names, one of them unknown to the catalog and dropped,
\* and Gold left in a digit position.
C5_Witness ==
    /\ phase = "done"
    /\ bandNames = <<"Gold", "Pink", "Black", "Red">>
    /\ resistorValue = InvalidBandSequence

\* The tolerance code as the characters the decoder prints.
CodeChars(code) ==
    CASE code = "1"    -> <<"1">>
      [] code = "2"    -> <<"2">>
      [] code = "0.5"  -> <<"0", ".", "5">>
      [] code = "0.25" -> <<"0", ".", "2", "5">>
      [] code = "0.1"  -> <<"0", ".", "1">>
      [] code = "5"    -> <<"5">>
      [] code = "10"   -> <<"1", "0">>
      [] code = "20"   -> <<"2", "0">>

\* The two-digit mantissas of the E12 series of standard values.
StandardMantissas == {10, 12, 15, 18, 22, 27, 33, 39, 47, 56, 68, 82}

\* C2: for every standard value (10 ohm to 8.2 Mohm) and every tolerance
\* code of the table, decoding the encoder's sequence gives the formatted
\* value of the resistance that was encoded, with the code as its tolerance.
C2_RoundTrip ==
    (/\ phase = "done"
     /\ ohms.m \in StandardMantissas
     /\ ohms.e \in 0..5
     /\ correctTolerance \in DOMAIN toleranceMap)
    => roundTrip = formatResistance(ohms.m, ohms.e) \o <<" ", PlusMinus>>
                      \o CodeChars(correctTolerance) \o <<"%">>

\* C3: for ohms = D * 10^e with D in 10..99 and a non-empty result, the
\* first two names are the colours of D's digits and the third is the
\* multiplier colour of e: the digit colour of value e, Gold for e = -1.
C3_EncodesDigitsAndExponent ==
    (/\ phase # "encode"
     /\ ohms.m \in 10..99
     /\ ohms.e \in -1..9
     /\ colorSequence # <<>>)
    => /\ colorSequence[1] = colorMap[(ohms.m \div 10) + 1]
       /\ colorSequence[2] = colorMap[(ohms.m % 10) + 1]
       /\ colorSequence[3] = IF ohms.e = -1 THEN "Gold" ELSE colorMap[ohms.e + 1]

EncoderNames == {colorMap[i] : i \in 1..10} \cup {"Gold", "Silver"}

\* C4: resistanceToColors returns the empty sequence for ohms < 0.1 and for
\* ohms >= 10^10; every other result has 3 or 4 names, each a digit colour,
\* Gold or Silver, and has the fourth exactly when the tolerance code is one
\* of the table other than "20".
C4_FailsClosed ==
    phase # "encode" =>
        /\ BelowTenth(ohms.m, ohms.e) => colorSequence = <<>>
        /\ (ohms.m >= 1 /\ FloorLog10(ohms.m, ohms.e) >= 10) => colorSequence = <<>>
        /\ colorSequence # <<>> =>
              /\ Len(colorSequence) \in {3, 4}
              /\ \A i \in 1..Len(colorSequence) : colorSequence[i] \in EncoderNames
              /\ Len(colorSequence) = 4 <=> correctTolerance \in (DOMAIN toleranceMap \ {"20"})

---------------------------------------------------------------------------
(* Properties of the classifier                                            *)

GoldVariantNames == {"Gold_Light", "Gold_Metallic", "Gold_Dark", "Gold_Ochre"}

\* The catalog entries whose colour is exactly the targetPixel.
EntriesOfPixel == {i \in CatalogIdx : /\ RESISTOR_COLORS[i].r = targetPixel.r
                                      /\ RESISTOR_COLORS[i].g = targetPixel.g
                                      /\ RESISTOR_COLORS[i].b = targetPixel.b}

\* C6: for a targetPixel that has exactly the colour of a catalog entry, and any
\* learned colours, findClosestColor returns Gold for Gold and its shade
\* variants, Violet for Violet_Dark and the entry's own name otherwise.
C6_ExactColourIsCanonical ==
    phase = "done" =>
        \A i \in EntriesOfPixel :
            closestColor.name =
                IF RESISTOR_COLORS[i].name \in GoldVariantNames \cup {"Gold"} THEN "Gold"
                ELSE IF RESISTOR_COLORS[i].name = "Violet_Dark" THEN "Violet"
                ELSE RESISTOR_COLORS[i].name

\* C6's case: the metallic gold (212,175,55), which the user has also
\* taught under a name of their own, is classified Gold.
C6_Witness ==
    /\ phase = "done"
    /\ targetPixel = [r |-> 212, g |-> 175, b |-> 55]
    /\ learnedColors = <<[name |-> "Mauve", r |-> 212, g |-> 175, b |-> 55]>>
    /\ closestColor.name = "Gold"

\* C7: findClosestColor returns the name of a learned colour of the list
\* or of a catalog entry, and never a Gold shade variant nor Violet_Dark.
C7_NeverAVariant ==
    phase = "done" =>
        /\ closestColor.name \in CatalogNames \cup {learnedColors[i].name : i \in 1..Len(learnedColors)}
        /\ closestColor.name \notin GoldVariantNames \cup {"Violet_Dark"}

\* C7's case: a targetPixel that is no catalog colour and whose closest entry is
\* the dark violet, with a learned colour named after a Gold shade.
C7_Witness ==
    /\ phase = "done"
    /\ EntriesOfPixel = {}
    /\ learnedColors # <<>>
    /\ learnedColors[1].name = "Gold_Dark"
    /\ CatalogLoop(rgbToLab(targetPixel.r, targetPixel.g, targetPixel.b), 1,
                   [minDist |-> Infinity, closest |-> RESISTOR_COLORS[1]]).closest.name = "Violet_Dark"
    /\ closestColor.name = "Violet"

---------------------------------------------------------------------------
(* Properties of the extractor                                             *)

\* C8: the bands that extractBands returns are strictly increasing in x:
\* sorted ascending, and no two of them share an x.
C8_StrictlyIncreasingX ==
    phase = "done" =>
        \A i, j \in 1..Len(extracted) : i < j => extracted[i].x < extracted[j].x

\* C8's case: an image of four stripes of which the extractor keeps three
\* and drops one.
C8_Witness ==
    /\ phase = "done"
    /\ image.height = 2
    /\ Len(extracted) = 3
    /\ \E i \in 1..2 : extracted[i + 1].x - extracted[i].x > 8

---------------------------------------------------------------------------
(* Properties of the handlers                                              *)

\* The step in which an accepted learn writes the store.
LearnWrites == learner.pc = "put" /\ learner'.pc = "idle" /\ store.configured

\* The indices of the entries of a list that have the colour.
IndicesOf(definitions, color) ==
    {i \in 1..Len(definitions) :
        definitions[i].r = color.r /\ definitions[i].g = color.g /\ definitions[i].b = color.b}

\* C9: with learn requests that do not overlap and a stored list of
\* pairwise distinct colours, the stored list keeps at most one entry per
\* colour; a learn of a colour that is present replaces its entry in place
\* (same index, same length, the other entries unchanged), a learn of a new
\* colour appends exactly one entry, and afterwards the entry of the colour
\* carries the name just learned.
C9_LearnUpserts ==
    [][LearnWrites =>
        LET before == store.custom_colors
            after  == store'.custom_colors
            color  == learner.body.detectedColor
            entry  == [name |-> learner.body.correctColorName,
                       r |-> color.r, g |-> color.g, b |-> color.b]
            at     == IndicesOf(before, color)
        IN  /\ DistinctRGB(before)
            /\ DistinctRGB(after)
            /\ IF at # {}
               THEN /\ Len(after) = Len(before)
                    /\ \A i \in 1..Len(before) :
                          after[i] = IF i \in at THEN entry ELSE before[i]
               ELSE after = Append(before, entry)
            /\ \A i \in IndicesOf(after, color) : after[i].name = entry.name
            /\ IndicesOf(after, color) # {}]_vars

\* C9's case: the second of two learns gave the first entry of a list of
\* two a new name, and the other entry is as it was.
C9_Witness ==
    /\ phase = "serve"
    /\ detector.pc = "off"
    /\ learnsLeft = 0
    /\ learner.pc = "idle"
    /\ learner.response.status = 200
    /\ learner.body.detectedColor = OffRed
    /\ learner.body.correctColorName = "Red"
    /\ store.custom_colors = <<[name |-> "Red", r |-> 200, g |-> 30, b |-> 40],
                               [name |-> "Mauve", r |-> 200, g |-> 31, b |-> 40]>>

\* C10: the response of a detection request is the one that its body and
\* the list read at its start determine, whatever a learn request has
\* written to the store since that read.
C10_SnapshotIsolation ==
    detector.pc = "done" =>
        detector.response = DetectionResponse(detector.body, detector.customColors)

\* C10's case: a learn wrote the store between the read and the response
\* of a detection, and with the list as written the response would differ.
C10_Witness ==
    /\ detector.pc = "done"
    /\ detector.response.status = 200
    /\ learner.response.status = 200
    /\ StoreGet(store) # detector.customColors
    /\ DetectionResponse(detector.body, StoreGet(store)) # detector.response

-----------------------------------------------------------------------------
\* Claims about a worker without a store binding.

\* C11: without a store binding the handlers work on the empty list of
\* learned colours: a learn request issues no get and no put, writes
\* nothing, and answers success when its body is valid; a detection request
\* before or after it reads the empty list and answers as for that list.
C11_NoStoreIsEmptyList ==
    ~store.configured =>
        /\ storeCalls = NoCalls
        /\ store.custom_colors = <<>>
        /\ (learner.response # NoResponse /\ ~InvalidLearningData(learner.body))
              => learner.response = LearnedResponse(learner.body)
        /\ detector.pc \in {"read", "done"} => detector.customColors = <<>>
        /\ detector.pc = "done"
              => detector.response = DetectionResponse(detector.body, <<>>)

\* C11's case: without a binding, a learn request was answered with success
\* and a detection request found bands.
C11_Witness ==
    /\ ~store.configured
    /\ learner.response # NoResponse
    /\ learner.response.status = 200
    /\ detector.pc = "done"
    /\ detector.response.status = 200
    /\ Len(detector.response.bands) > 0

-----------------------------------------------------------------------------
\* Claims about the learn-from-value request.

\* The step of a learn-from-value request from its body to its response.
ValueStep == valuer.pc = "start" /\ valuer'.pc = "done"

\* C12: a learn-from-value request issues no get and no put and leaves the
\* store as it was; its successful response carries resistanceToColors of
\* the parsed correctValue and the correctTolerance, and the detectedBands
\* of the body as they came; when that sequence is empty the response is a
\* 400 instead.
C12_ValueRequestOnlyComputes ==
    [][ValueStep =>
        /\ store' = store
        /\ storeCalls' = storeCalls
        /\ storeCalls'.value = NoCalls.value
        /\ valuer'.response.status \in {200, 400}
        /\ valuer'.response.status = 200 =>
              /\ ~InvalidInputData(valuer.body)
              /\ ~IsNull(parseResistance(valuer.body.correctValue))
              /\ valuer'.response.correctColorSequence
                    = resistanceToColors(parseResistance(valuer.body.correctValue),
                                         ToleranceOf(valuer.body))
              /\ valuer'.response.correctColorSequence # <<>>
              /\ valuer'.response.yourDetectedBands = valuer.body.detectedBands
        /\ (/\ ~InvalidInputData(valuer.body)
            /\ ~IsNull(parseResistance(valuer.body.correctValue))
            /\ resistanceToColors(parseResistance(valuer.body.correctValue),
                                  ToleranceOf(valuer.body)) = <<>>)
              => valuer'.response.status = 400]_vars

\* C12's case: "4.7k" at 5 % with three detected bands, over a store that
\* holds a learned colour, answered with the encoder's sequence for 4700.
C12_Witness ==
    /\ valuer.pc = "done"
    /\ store.configured
    /\ store.custom_colors # <<>>
    /\ valuer.response.status = 200
    /\ Len(valuer.body.detectedBands.items) = 3
    /\ valuer.body.correctValue = <<"4", ".", "7", "k">>
    /\ valuer.response.correctColorSequence = <<"Yellow", "Violet", "Orange", "Gold">>
    /\ valuer.response.yourDetectedBands.items = <<"Red", "Red", "Brown">>

\* C12's other case: a value that parses to less than 0.1 ohm, which has no
\* sequence.
C12_WitnessNoSequence ==
    /\ valuer.pc = "done"
    /\ ~InvalidInputData(valuer.body)
    /\ valuer.response = ErrorResponse(400, "Could not determine sequence.")

-----------------------------------------------------------------------------
\* Claims about the validation and the responses of the edge detection.

\* The body lacks one of the four fields.
LacksField(body) == {"pixels", "width", "height", "threshold"} \ DOMAIN body # {}

\* C13: an edge-detection request whose body lacks pixels, width, height or
\* threshold is answered with a status outside 200..299 and runs neither
\* extractBands nor calculateResistorValue; a body with all four fields, a
\* width and a height that are not 0 and the threshold 0 is not rejected and
\* runs both.
C13_RejectedBeforeCoreLogic ==
    detector.pc = "done" =>
        /\ LacksField(detector.body) =>
              /\ detector.response.status \notin 200..299
              /\ coreRuns = {}
        /\ (/\ ~LacksField(detector.body)
            /\ detector.body.threshold = 0
            /\ detector.body.width # 0
            /\ detector.body.height # 0) =>
              /\ detector.response.status = 200
              /\ coreRuns = {"extractBands", "calculateResistorValue"}

\* C13's case: a body without a threshold was rejected.
C13_Witness ==
    /\ detector.pc = "done"
    /\ DOMAIN detector.body = {"pixels", "width", "height"}
    /\ detector.response.status = 400
    /\ coreRuns = {}

\* C13's other case: an image with the threshold 0 gave bands.
C13_WitnessZeroThreshold ==
    /\ detector.pc = "done"
    /\ ~LacksField(detector.body)
    /\ detector.body.threshold = 0
    /\ detector.response.status = 200
    /\ Len(detector.response.bands) > 0

\* C14: every response of the edge detection with a status outside 200..299
\* has a body of the form {error: message}.
C14_ErrorsAreErrorObjects ==
    (detector.pc = "done" /\ detector.response.status \notin 200..299)
        => "error" \in DOMAIN detector.response

\* The bands that extractBands finds for the request and that neither
\* marking takes for the body.
BandsLeft(request) ==
    SelectSeq(ProcessedBands(extractBands(request.body.pixels, request.body.width,
                                          request.body.height, request.body.threshold,
                                          request.customColors)),
              LAMBDA b : ~b.isBody)

\* The value is one of the decoder's descriptive strings or a resistance.
IsDescriptive(value) == value # Null /\ value # Pending /\ Len(value) > 0

C15_WitnessTwoBands ==
    /\ detector.pc = "done"
    /\ detector.response.status = 200
    /\ Len(detector.response.bands) = 2
    /\ detector.response.resistor_value = Null

C15_WitnessDecoded ==
    /\ detector.pc = "done"
    /\ detector.response.status = 200
    /\ Len(detector.response.bands) = 3
    /\ detector.response.resistor_value \notin {Null, NotEnoughValidBands, InvalidBandSequence}

-----------------------------------------------------------------------------
\* Claims about store calls that fail.

\* The handler's request has got its error response.
Caught(request) ==
    /\ request'.response.status = 500
    /\ "error" \in DOMAIN request'.response
    /\ request'.response.error = StoreFault

\* C16: a get or a put that fails during a learn or a detection request is
\* answered by that handler with status 500 and the error, and ends the
\* request; the stored list is as before the failed call; no request issues
\* more than one get or more than one put.
C16_StoreFaultsAreCaught ==
    [][/\ storeCalls'.learn.get <= 1 /\ storeCalls'.learn.put <= 1
       /\ storeCalls'.detect.get <= 1 /\ storeCalls'.detect.put = 0
       /\ storeCalls'.learn.failed <= 1 /\ storeCalls'.detect.failed <= 1
       /\ storeCalls'.learn.failed > storeCalls.learn.failed =>
             /\ Caught(learner)
             /\ learner'.pc = "idle"
             /\ store' = store
       /\ storeCalls'.detect.failed > storeCalls.detect.failed =>
             /\ Caught(detector)
             /\ detector'.pc = "done"
             /\ store' = store]_vars

\* C16's case: the put of a learn request failed; the request got the 500
\* after one get and one put, and the store holds the list it held before,
\* without the colour that the request taught.
C16_Witness ==
    /\ learner.pc = "idle"
    /\ learner.response = CatchResponse(StoreFault)
    /\ storeCalls.learn = [get |-> 1, put |-> 1, failed |-> 1]
    /\ store.custom_colors # learner.definitions
    /\ ExistingIndex(store.custom_colors, learner.body.detectedColor) = -1

\* C16's other case: the get of a detection request failed.
C16_WitnessDetection ==
    /\ detector.pc = "done"
    /\ detector.response = CatchResponse(StoreFault)
    /\ storeCalls.detect = [get |-> 1, put |-> 0, failed |-> 1]
    /\ coreRuns = {}

-----------------------------------------------------------------------------
\* Claims about ties in the classifier.

\* The catalog entries whose biased distance to the pixel is the least.
MinimalEntries(pixel) ==
    LET pixelLab == rgbToLab(pixel.r, pixel.g, pixel.b)
    IN  {i \in CatalogIdx :
            \A j \in CatalogIdx : BiasedDistance(pixelLab, i) <= BiasedDistance(pixelLab, j)}

\* Two or more entries are at the least distance, and they are so in the
\* code's doubles: distances that are equal in hundredths need not be equal
\* doubles, those that are Infinity are.
ExactTie(pixel) ==
    /\ Cardinality(MinimalEntries(pixel)) >= 2
    /\ \A i \in MinimalEntries(pixel) :
          BiasedDistance(rgbToLab(pixel.r, pixel.g, pixel.b), i) = Infinity

FirstOf(indices) == CHOOSE i \in indices : \A j \in indices : i <= j

\* C17: when two or more catalog entries are at the same least biased
\* distance from the pixel, findClosestColor returns the earliest of them
\* in the catalog (unified as every result is).
C17_EarlierEntryWinsTies ==
    (phase = "done" /\ ExactTie(targetPixel)) =>
        closestColor = Canonical(RESISTOR_COLORS[FirstOf(MinimalEntries(targetPixel))])

-----------------------------------------------------------------------------
\* Claims about the segments and the admission of bands.

\* The averaged line of the image in the state.
LineOfImage == AveragedLine(image.pixels, image.width, image.height)

\* A segment starts at column x >= 1 exactly when the averaged pixels x-1
\* and x of the line are further apart than the threshold.
StartsWhereColourChanges(line) ==
    \A x \in 1..(Len(line) - 1) :
        (\E k \in 1..Len(rawSegments) : rawSegments[k].start_x = x)
            <=> colorDistance(line[x], line[x + 1]) > changeThreshold * 100

\* C18: for an image that is not empty, the segments built before any
\* filtering partition the columns 0..width-1: the first starts at 0, the
\* last ends at width-1, each next one starts right after the one before;
\* and a segment starts at column x >= 1 exactly when the distance of the
\* averaged pixels x-1 and x is above the threshold.
C18_SegmentsPartitionTheLine ==
    (phase = "done" /\ image.width >= 1 /\ image.height >= 1 /\ Len(image.pixels) > 0) =>
        /\ Len(rawSegments) >= 1
        /\ rawSegments[1].start_x = 0
        /\ rawSegments[Len(rawSegments)].end_x = image.width - 1
        /\ \A k \in 1..Len(rawSegments) : rawSegments[k].start_x <= rawSegments[k].end_x
        /\ \A k \in 1..(Len(rawSegments) - 1) :
              rawSegments[k + 1].start_x = rawSegments[k].end_x + 1
        /\ Len(LineOfImage) = image.width
        /\ StartsWhereColourChanges(LineOfImage)

\* C18's case: four stripes at the threshold 0 gave four segments, one of
\* them four columns wide.
C18_Witness ==
    /\ phase = "done"
    /\ changeThreshold = 0
    /\ Len(rawSegments) = 4
    /\ \E k \in 1..4 : rawSegments[k].end_x - rawSegments[k].start_x = 3

\* The final colour of the k-th raw segment, given its average colour.
FinalColorOfAverage(k, avgColor) ==
    FinalColor(rawSegments[k], k - 1, Len(rawSegments), MedianWidth(rawSegments),
               rgbToLab(avgColor.r, avgColor.g, avgColor.b),
               findClosestColor(avgColor, taughtColors))

FinalNameOf(k) == FinalColorOfAverage(k, averageColor(rawSegments[k].pixels)).name

\* The emitted bands that come from the k-th raw segment: those at its centre.
BandsFrom(k) == {i \in 1..Len(extracted) : extracted[i].x = BandCentre(rawSegments[k])}

\* C19: every emitted band is at least 3 wide and, unless its name is Gold
\* or Silver, has 5 <= l <= 99; a segment narrower than 3 gives no band;
\* a segment at least 3 wide whose final name is Gold or Silver gives a
\* band whatever its lightness.
C19_AdmissionFilter ==
    phase = "done" =>
        /\ \A i \in 1..Len(extracted) :
              /\ extracted[i].width >= 3
              /\ extracted[i].colorName \notin {"Gold", "Silver"}
                    => (extracted[i].l >= 500 /\ extracted[i].l <= 9900)
              /\ \E k \in 1..Len(rawSegments) : i \in BandsFrom(k)
        /\ \A k \in 1..Len(rawSegments) :
              /\ SegWidth(rawSegments[k]) < 3 => BandsFrom(k) = {}
              /\ (SegWidth(rawSegments[k]) >= 3 /\ FinalNameOf(k) \in {"Gold", "Silver"})
                    => \E i \in BandsFrom(k) : extracted[i].colorName = FinalNameOf(k)

\* C19's case: a band named Gold was emitted though its lightness is below
\* 5, a segment one column wide gave no band, and neither did a white one.
C19_Witness ==
    /\ phase = "done"
    /\ \E i \in 1..Len(extracted) : extracted[i].colorName = "Gold" /\ extracted[i].l < 500
    /\ \E k \in 1..Len(rawSegments) : SegWidth(rawSegments[k]) = 1 /\ BandsFrom(k) = {}
    /\ \E k \in 1..Len(rawSegments) :
          /\ SegWidth(rawSegments[k]) = 3
          /\ rawSegments[k].pixels[1].r = 255 /\ rawSegments[k].pixels[1].b = 255
          /\ BandsFrom(k) = {}

\* The segment is the first raw segment or one of the last two.
FirstOrOneOfLastTwo(k) == k = 1 \/ k >= Len(rawSegments) - 1

\* C20: a band that comes from a segment that is neither the first raw
\* segment nor one of the last two has the name that findClosestColor
\* gives for the segment's average colour and the learned colours.
C20_OverridesOnlyAtEdges ==
    phase = "done" =>
        \A k \in 1..Len(rawSegments) :
            ~FirstOrOneOfLastTwo(k) =>
                \A i \in BandsFrom(k) :
                    extracted[i].colorName
                        = findClosestColor(averageColor(rawSegments[k].pixels), taughtColors).name

\* The final colour that the segment would have as the first segment.
FinalNameAsFirst(k, avgColor) ==
    FinalColor(rawSegments[k], 0, Len(rawSegments), MedianWidth(rawSegments),
               rgbToLab(avgColor.r, avgColor.g, avgColor.b),
               findClosestColor(avgColor, taughtColors)).name

\* C20's case: the second of four segments, a red stripe, gave a band named
\* Red, where the same segment as the first would be named Gold.
C20_Witness ==
    /\ phase = "done"
    /\ Len(rawSegments) = 4
    /\ ~FirstOrOneOfLastTwo(2)
    /\ \E i \in BandsFrom(2) : extracted[i].colorName = "Red"
    /\ FinalNameAsFirst(2, averageColor(rawSegments[2].pixels)) = "Gold"


---------------------------------------------------------------------------
(* C21: the rescue of a saturated body colour at an edge                   *)

\* The average colour of the k-th raw segment, in Lab space.
LabOfSegment(k) ==
    LET avgColor == averageColor(rawSegments[k].pixels)
    IN  rgbToLab(avgColor.r, avgColor.g, avgColor.b)

\* The name that findClosestColor gives the k-th raw segment.
ClosestNameOf(k) == findClosestColor(averageColor(rawSegments[k].pixels), taughtColors).name

\* The k-th raw segment is at least 3 wide, is classified as a body colour,
\* is at an edge, has chroma above 30 and b above 25, and is narrower than
\* 1.2 times the median width.
IsRescueCase(k) ==
    /\ SegWidth(rawSegments[k]) >= 3
    /\ ClosestNameOf(k) \in BodyNames
    /\ k = 1 \/ k >= Len(rawSegments) - 1
    /\ Chroma(LabOfSegment(k)) > 3000
    /\ LabOfSegment(k).b > 2500
    /\ 5 * SegWidth(rawSegments[k]) < 6 * MedianWidth(rawSegments)

\* C21: every segment of width at least 3 that is classified as a body
\* colour, is at an edge, has chroma > 30 and Lab b > 25 and is narrower than
\* 1.2 times the median width is emitted as one band, named Gold.
C21_RescuedBodyIsGold ==
    phase = "done" =>
        \A k \in 1..Len(rawSegments) :
            IsRescueCase(k) =>
                /\ Cardinality(BandsFrom(k)) = 1
                /\ \A i \in BandsFrom(k) : extracted[i].colorName = "Gold"

\* C21's case: the last segment is the green taught as a body colour, which
\* is not warm and so no candidate for Gold, and is emitted as Gold.
C21_Witness ==
    /\ phase = "done"
    /\ Len(rawSegments) = 3
    /\ IsRescueCase(3)
    /\ LabOfSegment(3).a <= -500
    /\ \E i \in BandsFrom(3) : extracted[i].colorName = "Gold"


---------------------------------------------------------------------------
(* C22: the rejection of a wide body segment away from the edges           *)

\* The k-th raw segment is away from the edges and wider than 2.5 times the
\* median width.
IsWideInside(k) ==
    /\ ~(k = 1 \/ k >= Len(rawSegments) - 1)
    /\ 2 * SegWidth(rawSegments[k]) > 5 * MedianWidth(rawSegments)

\* The k-th raw segment passes the width and the lightness filters.
IsAdmitted(k) ==
    /\ SegWidth(rawSegments[k]) >= 3
    /\ \/ FinalNameOf(k) \in {"Gold", "Silver"}
       \/ (LabOfSegment(k).l >= 500 /\ LabOfSegment(k).l <= 9900)

\* C22: a segment away from the edges that is wider than 2.5 times the
\* median width and whose final name is a body colour gives no band; a
\* segment at an edge, or one whose final name is no body colour, that
\* passes the width and lightness filters is not discarded by the rule.
C22_WideBodyInsideIsRejected ==
    phase = "done" =>
        \A k \in 1..Len(rawSegments) :
            /\ (IsWideInside(k) /\ FinalNameOf(k) \in BodyNames) => BandsFrom(k) = {}
            /\ (IsAdmitted(k) /\ ~(IsWideInside(k) /\ FinalNameOf(k) \in BodyNames))
                    => BandsFrom(k) # {}

\* C22's case: of four segments the second is tan, 8 wide where the median
\* is 3, and gives no band, while the other three do.
C22_Witness ==
    /\ phase = "done"
    /\ Len(rawSegments) = 4
    /\ MedianWidth(rawSegments) = 3
    /\ SegWidth(rawSegments[2]) = 8
    /\ FinalNameOf(2) = "Tan (Body)"
    /\ BandsFrom(2) = {}
    /\ Len(extracted) = 3

\* C22's other case: of four segments the second is red, 8 wide where the
\* median is 3, and is emitted as Red.
C22_WitnessWideBand ==
    /\ phase = "done"
    /\ Len(rawSegments) = 4
    /\ IsWideInside(2)
    /\ \E i \in BandsFrom(2) : extracted[i].colorName = "Red" /\ extracted[i].width = 8


---------------------------------------------------------------------------
(* C23: the rescue and the width rejection on the same segment             *)

\* The widest segment and median considered.
MaxSegWidth == 30

\* The colours considered, by chroma and b in Lab space: those of the
\* catalog and the saturated colours of the striped images.
ColourSignatures ==
    {[chroma |-> Chroma(rgbToLab(c.r, c.g, c.b)), b |-> rgbToLab(c.r, c.g, c.b).b] :
        c \in {[r |-> RESISTOR_COLORS[i].r, g |-> RESISTOR_COLORS[i].g,
                b |-> RESISTOR_COLORS[i].b] : i \in CatalogIdx} \cup {SandyBody, LeafGreen}}

\* Both conditions hold for a segment of the given name, position, width,
\* median width, chroma and b.
BothRulesFire(name, isAtEdge, segWidth, medianWidth, chroma, labB) ==
    /\ RescuesBody(name, isAtEdge, chroma, labB, segWidth, medianWidth)
    /\ RejectsWideBody(name, isAtEdge, segWidth, medianWidth)

\* Both conditions hold for the k-th raw segment under the given name.
BothRulesFireOn(k, name) ==
    BothRulesFire(name, IsAtEdge(k - 1, Len(rawSegments)), SegWidth(rawSegments[k]),
                  MedianWidth(rawSegments), Chroma(LabOfSegment(k)), LabOfSegment(k).b)

\* C23, as stated: some combination of name, position, width, median width
\* and colour satisfies the condition of the rescue and the condition of the
\* width rejection, be it a segment of the image at hand or a combination of
\* a known name, a position among up to MaxRuns segments, widths up to
\* MaxSegWidth and a colour of the catalog.
C23_SomeSegmentFiresBoth ==
    \/ \E k \in 1..Len(rawSegments), name \in CatalogNames \cup CustomNames :
            BothRulesFireOn(k, name)
    \/ \E name \in CatalogNames \cup CustomNames, segmentCount \in 1..MaxRuns :
         \E index \in 0..(segmentCount - 1), colour \in ColourSignatures :
          \E segWidth \in 1..MaxSegWidth, medianWidth \in 1..MaxSegWidth :
            BothRulesFire(name, IsAtEdge(index, segmentCount), segWidth, medianWidth,
                          colour.chroma, colour.b)

\* C23, corrected: on no segment of an image do the condition of the rescue
\* and the condition of the width rejection both hold, whatever name the
\* segment carries when they are evaluated: the first needs the segment at
\* an edge and narrower than 1.2 times the median, the second away from the
\* edges and wider than 2.5 times the median.
C23_RulesNeverBothFire ==
    phase = "done" =>
        \A k \in 1..Len(rawSegments), name \in CatalogNames \cup CustomNames :
            ~BothRulesFireOn(k, name)

\* C23's case: of four segments the first is rescued as Gold and the second
\* is rejected as a wide body.
C23_Witness ==
    /\ phase = "done"
    /\ Len(rawSegments) = 4
    /\ IsRescueCase(1)
    /\ \E i \in BandsFrom(1) : extracted[i].colorName = "Gold"
    /\ IsWideInside(2)
    /\ FinalNameOf(2) \in BodyNames
    /\ BandsFrom(2) = {}


---------------------------------------------------------------------------
(* C24: the roles of the catalog entries                                   *)

DigitColourNames == {"Black", "Brown", "Red", "Orange", "Yellow", "Green", "Blue",
                     "Violet", "Gray", "White"}

Has(entry, fieldName) == fieldName \in DOMAIN entry

\* The entry has the fields of its role: a digit colour a value in 0..9; a
\* metallic entry a multiplier below 1 (a negative power of ten) and a
\* tolerance; a body entry none of the three; and a value, where there is
\* one, is in 0..9.
HasFieldsOfRole(entry) ==
    /\ entry.name \in DigitColourNames => (Has(entry, "value") /\ entry.value \in 0..9)
    /\ IsMetallic(entry.name) =>
            /\ Has(entry, "multiplier") /\ entry.multiplier < 0
            /\ Has(entry, "tolerance")
    /\ entry.name \in BodyNames =>
            ~(Has(entry, "value") \/ Has(entry, "multiplier") \/ Has(entry, "tolerance"))
    /\ Has(entry, "value") => entry.value \in 0..9

\* C24: every catalog entry has the fields of its role; stated for the
\* entries whose colour is the pixel being classified, which ranges over
\* the colours of all entries.
C24_CatalogRoles ==
    \A i \in CatalogIdx :
        (/\ RESISTOR_COLORS[i].r = targetPixel.r
         /\ RESISTOR_COLORS[i].g = targetPixel.g
         /\ RESISTOR_COLORS[i].b = targetPixel.b) => HasFieldsOfRole(RESISTOR_COLORS[i])


---------------------------------------------------------------------------
(* C25: the removal of the dominant name, applied twice                    *)

\* C25: removing the dominant name from a list of names that it was already
\* removed from changes nothing, and leaves no dominant name.
C25_BodyExclusionIsIdempotent ==
    phase = "done" =>
        /\ refiltered = filtered
        /\ IsNull(findDominantColor(filtered))


---------------------------------------------------------------------------
(* C26: two learn requests at once                                         *)

\* The stored list has an entry of the colour.
IsStored(detectedColor) ==
    \E i \in 1..Len(store.custom_colors) : SameRGB(store.custom_colors[i], detectedColor)

\* C26: when two learn requests for different colours, served at once
\* against a configured store, have both answered success, the stored list
\* has an entry for each of the two colours.
C26_NoLearnedColourIsLost ==
    (/\ store.configured
     /\ learner.pc = "idle" /\ learner.response.status = 200
     /\ rival.pc = "idle" /\ rival.response.status = 200
     /\ ~SameRGB(learner.body.detectedColor, rival.body.detectedColor))
    => (IsStored(learner.body.detectedColor) /\ IsStored(rival.body.detectedColor))


---------------------------------------------------------------------------
(* C27: the rows that the averaged line is taken from                      *)

\* The colour of the input pixel in row y of column x.
InputColour(x, y) ==
    LET p == image.pixels[y * image.width + x + 1]
    IN  [r |-> p.r, g |-> p.g, b |-> p.b]

\* C27: for every height from 1 on, the window of rows from floor(0.25 h) to
\* floor(0.75 h) - 1 is not empty, and every pixel of the averaged line, as
\* the segments hold it, has the colour of its column, whose rows are all
\* alike in the striped images, and so is never the black fallback.
C27_AveragesRealPixels ==
    phase = "done" =>
        /\ image.height \div 4 < (3 * image.height) \div 4
        /\ \A k \in 1..Len(rawSegments) :
              \A j \in 1..Len(rawSegments[k].pixels) :
                 LET p == rawSegments[k].pixels[j]
                 IN  \E y \in 0..(image.height - 1) :
                        [r |-> p.r, g |-> p.g, b |-> p.b] = InputColour(p.x, y)


---------------------------------------------------------------------------
(* C28: the colour taught, classified                                      *)

\* Some catalog entry has exactly the colour.
IsCatalogColour(detectedColor) ==
    \E i \in CatalogIdx : SameRGB(RESISTOR_COLORS[i], detectedColor)

\* The colour taught has been classified with the list of a configured
\* store, and no catalog entry has exactly that colour.
TaughtColourClassified ==
    /\ phase = "done"
    /\ store.configured
    /\ ~IsCatalogColour(learner.body.detectedColor)

\* C28, as stated: the classification of the colour taught returns the name
\* taught, or Gold when that name starts with Gold.
C28_LearnedNameIsReturned ==
    TaughtColourClassified =>
        closestColor.name = (IF StartsWithGold(learner.body.correctColorName) THEN "Gold"
                             ELSE learner.body.correctColorName)

\* C28, corrected: the classification of the colour taught returns the name
\* taught, or Gold when that name starts with Gold, or Violet when that name
\* is Violet_Dark, whatever other colours the store holds.
C28_LearnedColourTakesEffect ==
    TaughtColourClassified =>
        closestColor.name = (IF StartsWithGold(learner.body.correctColorName) THEN "Gold"
                             ELSE IF learner.body.correctColorName = "Violet_Dark" THEN "Violet"
                             ELSE learner.body.correctColorName)

\* C28's case: the store held two other colours, one of them a neighbour
\* of the colour taught, and the colour taught is classified under its name.
C28_Witness ==
    /\ TaughtColourClassified
    /\ Len(learnedColors) = 3
    /\ learner.body.detectedColor = OffRed
    /\ learnedColors[1] = [name |-> "Red", r |-> 200, g |-> 31, b |-> 40]
    /\ learner.body.correctColorName = "Mauve"
    /\ closestColor.name = "Mauve"


---------------------------------------------------------------------------
(* C29: the digit colours as bands                                         *)

\* The k-th raw segment is away from the edges, at least 3 wide and at most
\* 2.5 times the median width.
IsPlainInside(k) ==
    /\ ~(k = 1 \/ k >= Len(rawSegments) - 1)
    /\ SegWidth(rawSegments[k]) >= 3
    /\ 2 * SegWidth(rawSegments[k]) <= 5 * MedianWidth(rawSegments)

\* C29: with no learned colours, a segment away from the edges, at least 3
\* wide and at most 2.5 times the median width, whose average colour is
\* exactly the catalog colour of a digit colour, gives a band of that name.
C29_DigitColoursAreDetected ==
    (phase = "done" /\ taughtColors = <<>>) =>
        \A k \in 1..Len(rawSegments), d \in DigitColourNames :
            (/\ IsPlainInside(k)
             /\ SameRGB(FindByName(d), averageColor(rawSegments[k].pixels)))
            => \E i \in BandsFrom(k) : extracted[i].colorName = d


---------------------------------------------------------------------------
(* C30: the bands that the detection endpoint leaves out                   *)

\* The bands that extractBands returned to the request answered.
BandsExtracted ==
    extractBands(detector.body.pixels, detector.body.width, detector.body.height,
                 detector.body.threshold, detector.customColors)

\* C30: every band that extractBands returned and whose name is not that of
\* a body colour is among the bands of the response, and its name among
\* detected_bands.
C30_OnlyBodyBandsAreRemoved ==
    (detector.pc = "done" /\ detector.response.status = 200) =>
        \A i \in 1..Len(BandsExtracted) :
            ~IsBodyName(BandsExtracted[i].colorName) =>
                \E j \in 1..Len(detector.response.bands) :
                    /\ detector.response.bands[j].x = BandsExtracted[i].x
                    /\ detector.response.detected_bands[j] = BandsExtracted[i].colorName

=============================================================================
